---- MODULE Spec2Model ----
(***************************************************************************)
(* Model of the lp2p identity and trust engine: PeerIdentity, TrustRecord  *)
(* and IdentityManager (identity.js), and the HELLO / INTRODUCE handlers   *)
(* of initMessageHandlers (protocol.js) that feed announced peer info into *)
(* the IdentityManager.                                                    *)
(*                                                                         *)
(* Encoding of JavaScript values:                                          *)
(*   - text (keys, hex, fingerprints, peer ids, names) is a sequence of    *)
(*     strings, so that the code's slicing can be modelled; null and       *)
(*     undefined in such a field are NullText / UndefText;                 *)
(*   - trust levels, verification methods and notes are TLA+ strings;      *)
(*     null / undefined in such a field are NULL / UNDEFINED;              *)
(*   - null / undefined objects are the records NullObj / UndefObj;        *)
(*   - a missing or null timestamp is 0 (Date.now() is always >= 1), a     *)
(*     missing boolean is FALSE, a missing array is <<>>: each of these is *)
(*     falsy in JavaScript exactly as the value it stands for.             *)
(***************************************************************************)
EXTENDS Integers, Sequences, FiniteSets, TLC

\* ------------------------------------------------------------------------
\* Bounds of the model
\* ------------------------------------------------------------------------
NumKeys == 2
MaxTime == 2
MaxSigs == 1
NumConns == 2
MaxHandlers == 3
MaxTasks == 2

\* ------------------------------------------------------------------------
\* Constants of identity.js
\* ------------------------------------------------------------------------
TRUST_LEVELS == {"unknown", "untrusted", "marginal", "full"}
VERIFICATION_METHODS == {"none", "code", "video", "in-person", "chain"}
IDENTITY_VERSION == "1.0.0"

NULL == "null"
UNDEFINED == "undefined"
NullObj == [isNull |-> TRUE]
UndefObj == [isUndefined |-> TRUE]

NullText == <<"null">>
UndefText == <<"undefined">>

\* a || b for text values
OrText(a, b) == IF a = NullText \/ a = UndefText \/ a = <<>> THEN b ELSE a
\* a || b for trust levels, verification methods and notes
OrAtom(a, b) == IF a = NULL \/ a = UNDEFINED \/ a = "" THEN b ELSE a
\* a || b for object values
OrObj(a, b) == IF a = NullObj \/ a = UndefObj THEN b ELSE a
\* a || b for numbers (0 stands for undefined, null and 0 alike)
OrNum(a, b) == IF a = 0 THEN b ELSE a

\* ------------------------------------------------------------------------
\* Utility functions: hashing and hex rendering
\* ------------------------------------------------------------------------
Keys == 1..NumKeys
\* the base64 text of the exported public / private key of key pair k
PublicKeyB64(k) == <<"P", ToString(k)>>
PrivateKeyB64(k) == <<"S", ToString(k)>>
KeyOf(pub) == CHOOSE k \in Keys : PublicKeyB64(k) = pub

HashLen == 32
\* SHA-256 of the public key bytes: a fixed 32-byte digest per key
sha256(k) == [i \in 1..HashLen |-> (k * 97 + i * 53 + k * i * 7) % 256]

HexDigits == <<"0","1","2","3","4","5","6","7","8","9","a","b","c","d","e","f">>
UpperHexDigits == <<"0","1","2","3","4","5","6","7","8","9","A","B","C","D","E","F">>
\* b.toString(16).padStart(2, '0')
ByteHex(b) == <<HexDigits[(b \div 16) + 1], HexDigits[(b % 16) + 1]>>

RECURSIVE JoinHex(_, _, _)
\* Array.from(bytes).map(hex).join(sep) over the first n bytes
JoinHex(bytes, n, sep) ==
    IF n = 0 THEN <<>>
    ELSE IF n = 1 THEN ByteHex(bytes[1])
    ELSE JoinHex(bytes, n - 1, sep) \o sep \o ByteHex(bytes[n])

Slice(s, from, to) == [i \in 1..(to - from) |-> s[from + i]]
\* s.slice(-n)
SliceLast(s, n) == IF Len(s) <= n THEN s ELSE Slice(s, Len(s) - n, Len(s))
UpperChar(c) ==
    IF \E i \in 1..16 : HexDigits[i] = c
    THEN UpperHexDigits[CHOOSE i \in 1..16 : HexDigits[i] = c]
    ELSE c
toUpperCase(s) == [i \in 1..Len(s) |-> UpperChar(s[i])]

formatFingerprint(hashBuffer, short) ==
    IF short THEN JoinHex(hashBuffer, 8, <<":">>)
    ELSE JoinHex(hashBuffer, Len(hashBuffer), <<":">>)

generateKeyId(k) == toUpperCase(SliceLast(JoinHex(sha256(k), HashLen, <<>>), 8))

generatePeerId(k) ==
    <<"p","e","e","r","-">> \o Slice(JoinHex(sha256(k), HashLen, <<>>), 0, 8)

\* the values PeerIdentity.generate stores, tabulated per key
FingerprintOf == [k \in Keys |-> formatFingerprint(sha256(k), TRUE)]
KeyIdOf == [k \in Keys |-> generateKeyId(k)]
PeerIdOf == [k \in Keys |-> generatePeerId(k)]

\* the remote peers of the model: the peer whose announcements vary freely,
\* and a second peer that announces one fixed info
SubjectId == PeerIdOf[1]
OtherId == PeerIdOf[2]
PeerIds == {SubjectId, OtherId}

\* fingerprint / keyId that belong to a cached public key (none for no key)
DerivedFingerprint(pub) ==
    IF pub = UndefText \/ pub = NullText THEN UndefText ELSE FingerprintOf[KeyOf(pub)]
DerivedKeyId(pub) ==
    IF pub = UndefText \/ pub = NullText THEN UndefText ELSE KeyIdOf[KeyOf(pub)]

\* ------------------------------------------------------------------------
\* Utility functions: base64
\* ------------------------------------------------------------------------
Base64Chars ==
    <<
      "A", "B", "C", "D", "E", "F", "G", "H", "I", "J", "K", "L", "M", "N", "O", "P",
      "Q", "R", "S", "T", "U", "V", "W", "X", "Y", "Z", "a", "b", "c", "d", "e", "f",
      "g", "h", "i", "j", "k", "l", "m", "n", "o", "p", "q", "r", "s", "t", "u", "v",
      "w", "x", "y", "z", "0", "1", "2", "3", "4", "5", "6", "7", "8", "9", "+", "/">>
IsBase64Char(c) == \E i \in 1..64 : Base64Chars[i] = c
Base64Index(c) == (CHOOSE i \in 1..64 : Base64Chars[i] = c) - 1

RECURSIVE btoa(_)
\* btoa over the bytes of a buffer: three bytes give four characters, a
\* last group of one or two bytes is padded with '='
btoa(bytes) ==
    IF Len(bytes) = 0 THEN <<>>
    ELSE LET b1 == bytes[1]
             b2 == IF Len(bytes) >= 2 THEN bytes[2] ELSE 0
             b3 == IF Len(bytes) >= 3 THEN bytes[3] ELSE 0
             c1 == Base64Chars[(b1 \div 4) + 1]
             c2 == Base64Chars[((b1 % 4) * 16 + (b2 \div 16)) + 1]
             c3 == Base64Chars[((b2 % 16) * 4 + (b3 \div 64)) + 1]
             c4 == Base64Chars[(b3 % 64) + 1]
         IN IF Len(bytes) = 1 THEN <<c1, c2, "=", "=">>
            ELSE IF Len(bytes) = 2 THEN <<c1, c2, c3, "=">>
            ELSE <<c1, c2, c3, c4>> \o btoa(SubSeq(bytes, 4, Len(bytes)))

\* arrayBufferToBase64
arrayBufferToBase64(buffer) == btoa(buffer)

\* atob first drops the padding of a text whose length is a multiple of 4
StripPadding(text) ==
    IF Len(text) > 0 /\ Len(text) % 4 = 0 /\ text[Len(text)] = "="
    THEN IF text[Len(text) - 1] = "="
         THEN SubSeq(text, 1, Len(text) - 2)
         ELSE SubSeq(text, 1, Len(text) - 1)
    ELSE text

\* atob throws InvalidCharacterError
atobThrows(text) ==
    LET data == StripPadding(text)
    IN Len(data) % 4 = 1 \/ \E i \in 1..Len(data) : ~IsBase64Char(data[i])

RECURSIVE DecodeBase64(_)
\* the bytes of unpadded base64 data: four characters give three bytes; of
\* a last group of two (three) characters the last four (two) bits are dropped
DecodeBase64(data) ==
    IF Len(data) < 2 THEN <<>>
    ELSE LET s1 == Base64Index(data[1])
             s2 == Base64Index(data[2])
             s3 == IF Len(data) >= 3 THEN Base64Index(data[3]) ELSE 0
             s4 == IF Len(data) >= 4 THEN Base64Index(data[4]) ELSE 0
             b1 == s1 * 4 + (s2 \div 16)
             b2 == (s2 % 16) * 16 + (s3 \div 4)
             b3 == (s3 % 4) * 64 + s4
         IN IF Len(data) = 2 THEN <<b1>>
            ELSE IF Len(data) = 3 THEN <<b1, b2>>
            ELSE <<b1, b2, b3>> \o DecodeBase64(SubSeq(data, 5, Len(data)))

\* base64ToArrayBuffer (for a text atob accepts)
base64ToArrayBuffer(base64) == DecodeBase64(StripPadding(base64))

\* ------------------------------------------------------------------------
\* PeerIdentity
\* ------------------------------------------------------------------------
Names == {<<"X">>, <<"Y">>}
Profile(n) == [name |-> n]

\* the profile generate() builds from its argument: name and email (avatar
\* and bio are handled exactly as email)
OwnProfile(n, e) == [name |-> OrText(n, <<"Anonymous">>), email |-> OrText(e, NullText)]

\* PeerIdentity.generate: key pair k, profile [name |-> n], created at t
PeerIdentityGenerate(k, n, t) ==
    [id |-> PeerIdOf[k],
     publicKey |-> PublicKeyB64(k),
     privateKey |-> PrivateKeyB64(k),
     fingerprint |-> FingerprintOf[k],
     keyId |-> KeyIdOf[k],
     created |-> t,
     profile |-> OwnProfile(n, UndefText)]

\* variant: the updates replace the profile instead of being merged into it
IdentityUpdateProfile_Replaces(identity, updates) ==
    [identity EXCEPT !.profile = updates]

\* PeerIdentity.updateProfile: { ...this.profile, ...updates }
IdentityUpdateProfile(identity, updates) ==
    [identity EXCEPT !.profile = [f \in DOMAIN identity.profile \cup DOMAIN updates |->
        IF f \in DOMAIN updates THEN updates[f] ELSE identity.profile[f]]]

\* PeerIdentity.getPublicInfo
getPublicInfo(identity) ==
    [id |-> identity.id,
     publicKey |-> identity.publicKey,
     fingerprint |-> identity.fingerprint,
     keyId |-> identity.keyId,
     profile |-> identity.profile]

\* PeerIdentity constructor (also fromJSON): defaults for missing fields
PeerIdentityNew(data, t) ==
    [id |-> data.id,
     publicKey |-> data.publicKey,
     privateKey |-> OrText(data.privateKey, NullText),
     fingerprint |-> data.fingerprint,
     keyId |-> data.keyId,
     created |-> OrNum(data.created, t),
     profile |-> OrObj(data.profile, OwnProfile(<<"Anonymous">>, NullText))]

\* data handed to sign / verify: a string or a buffer of bytes
TextData(text) == [kind |-> "string", text |-> text]
BufferData(bytes) == [kind |-> "buffer", bytes |-> bytes]
CharCode(c) == IF c = "a" THEN 97 ELSE IF c = "b" THEN 98 ELSE 63
\* TextEncoder.encode
encode(text) == [i \in 1..Len(text) |-> CharCode(text[i])]
\* typeof data === 'string' ? encoder.encode(data) : data
DataBytes(data) == IF data.kind = "string" THEN encode(data.text) ELSE data.bytes

\* crypto.subtle.sign / verify with Ed25519, idealised: the signature of key
\* pair k over some bytes is one fixed 64-byte value, different for every
\* key pair and every message of the model, and verify accepts exactly it
Ed25519SigLen == 64
RECURSIVE Digest(_)
Digest(bytes) ==
    IF Len(bytes) = 0 THEN 7
    ELSE (Digest(SubSeq(bytes, 1, Len(bytes) - 1)) * 31 + bytes[Len(bytes)]) % 251
Ed25519Sign(k, bytes) ==
    [i \in 1..Ed25519SigLen |-> (k * 89 + Digest(bytes) * 7 + i * 13 + k * i * 5) % 256]
Ed25519Verify(k, signatureBytes, bytes) == signatureBytes = Ed25519Sign(k, bytes)

PrivateKeyOf(priv) == CHOOSE k \in Keys : PrivateKeyB64(k) = priv

\* PeerIdentity.sign throws without a private key
signThrows(identity) == OrText(identity.privateKey, NullText) = NullText
\* PeerIdentity.sign(data): the base64 text of the signature
sign(identity, data) ==
    arrayBufferToBase64(Ed25519Sign(PrivateKeyOf(identity.privateKey), DataBytes(data)))

\* PeerIdentity.verify throws when atob rejects the signature text
verifyThrows(identity, data, signatureB64) == atobThrows(signatureB64)
\* PeerIdentity.verify(data, signatureB64)
verify(identity, data, signatureB64) ==
    Ed25519Verify(KeyOf(identity.publicKey), base64ToArrayBuffer(signatureB64),
                  DataBytes(data))

\* ------------------------------------------------------------------------
\* TrustRecord
\* ------------------------------------------------------------------------
\* TrustRecord constructor (also fromJSON), run at time t
TrustRecordNew(data, t) ==
    [peerId |-> data.peerId,
     publicKey |-> data.publicKey,
     fingerprint |-> data.fingerprint,
     keyId |-> data.keyId,
     trustLevel |-> OrAtom(data.trustLevel, "unknown"),
     trustedBy |-> data.trustedBy,
     trustedAt |-> OrNum(data.trustedAt, t),
     verified |-> data.verified,
     verifiedMethod |-> OrAtom(data.verifiedMethod, "none"),
     verifiedAt |-> data.verifiedAt,
     profile |-> OrObj(data.profile, Profile(<<"Unknown">>)),
     introducedBy |-> OrText(data.introducedBy, NullText),
     signatures |-> data.signatures,
     notes |-> OrAtom(data.notes, "")]

\* variant: a trust change without a method clears the verification
TrustRecordSetTrust_ClearsVerification(rec, level, verifiedMethod, t) ==
    IF OrAtom(verifiedMethod, NULL) # NULL
    THEN [rec EXCEPT !.trustLevel = level, !.trustedAt = t,
                     !.verified = TRUE, !.verifiedMethod = verifiedMethod,
                     !.verifiedAt = t]
    ELSE [rec EXCEPT !.trustLevel = level, !.trustedAt = t,
                     !.verified = FALSE, !.verifiedMethod = "none", !.verifiedAt = 0]

\* TrustRecord.setTrust(level, verifiedMethod) at time t
TrustRecordSetTrust(rec, level, verifiedMethod, t) ==
    IF OrAtom(verifiedMethod, NULL) # NULL
    THEN [rec EXCEPT !.trustLevel = level, !.trustedAt = t,
                     !.verified = TRUE, !.verifiedMethod = verifiedMethod,
                     !.verifiedAt = t]
    ELSE [rec EXCEPT !.trustLevel = level, !.trustedAt = t]

\* variant: an endorsement by another peer lifts an 'unknown' record to 'marginal'
TrustRecordAddSignature_Upgrades(rec, signedBy, signature, t) ==
    [rec EXCEPT !.signatures =
                    Append(@, [signedBy |-> signedBy, signature |-> signature, timestamp |-> t]),
                !.trustLevel = IF @ = "unknown" THEN "marginal" ELSE @]

\* TrustRecord.addSignature(signedBy, signature) at time t
TrustRecordAddSignature(rec, signedBy, signature, t) ==
    [rec EXCEPT !.signatures =
        Append(@, [signedBy |-> signedBy, signature |-> signature, timestamp |-> t])]

\* ------------------------------------------------------------------------
\* PeerJSSignaling: the object after its constructor
\* ------------------------------------------------------------------------
\* peer: a PeerJS peer exists; tracking: presenceInterval is set;
\* presenceMap: the peers recorded as online; pings: the peers with a ping
\* connection that has neither opened nor failed yet; connections: the
\* targets in this.connections; opening: per target, the connections
\* created by sendToPeer that have not opened yet; live: per target, the
\* connections created by sendToPeer that are opening or open; stopped:
\* presence tracking was stopped and has not been started since
SignalingNew ==
    [peer |-> FALSE, tracking |-> FALSE, presenceMap |-> {}, pings |-> {},
     connections |-> {}, opening |-> [p \in PeerIds |-> 0], live |-> [p \in PeerIds |-> 0],
     stopped |-> FALSE]

\* ------------------------------------------------------------------------
\* IdentityManager: state
\* ------------------------------------------------------------------------
VARIABLES
    ownIdentity,    \* this.ownIdentity: an identity record or NullObj
    knownPeers,     \* this.knownPeers: function from the known peer ids to TrustRecords
    storage,        \* localStorage: [identity, peers], each <<>> (no item) or <<json>>
    now,            \* Date.now()
    connections,    \* the page's connections map: connection id -> [peerId, open]
    outbox,         \* the messages sent over data channels by the last handler run
    rooms,          \* the IndexedDB `rooms` store: room code -> room record
    handlers,       \* MessageHandler.handlers for one message type: the handlers in
                    \* registration order
    tasks,          \* the handler runs that are suspended at an await: run id -> run
    signaling,      \* the PeerJSSignaling object and its pending connection events
    last            \* history: the operation that produced this state

vars == <<ownIdentity, knownPeers, storage, now, connections, outbox, rooms, handlers, tasks,
          signaling, last>>
netVars == <<connections, outbox, rooms>>
asyncVars == <<handlers, tasks, signaling>>

EmptyMap == [p \in {} |-> NullObj]
Put(map, key, val) == [q \in DOMAIN map \cup {key} |-> IF q = key THEN val ELSE map[q]]
Has(map, key) == key \in DOMAIN map

\* history record: operation name, the peer id it was about, whether that
\* peer had a TrustRecord when the operation began, whether it threw
Op(name, id, existed, threw) == [op |-> name, id |-> id, existed |-> existed, threw |-> threw]

\* ------------------------------------------------------------------------
\* IdentityManager: persistence
\* ------------------------------------------------------------------------
\* IdentityManager.save: returns the new content of localStorage.  An item
\* is kept as the value JSON.parse yields for it: JSON.stringify drops the
\* undefined fields of a record and keeps null, and a dropped field reads as
\* undefined again, so toJSON / stringify / parse returns the record it was
\* given; the constructor's defaults are applied by Load.
\* variant: save writes the identity item only
Save_IdentityOnly(own, peers, store) ==
    [identity |-> IF own # NullObj THEN <<own>> ELSE store.identity,
     peers |-> store.peers]

Save(own, peers, store) ==
    [identity |-> IF own # NullObj THEN <<own>> ELSE store.identity,
     peers |-> <<peers>>]

\* what the two setItem calls of save can do: both items are written; the
\* identity item is written and the (larger) peer collection is refused;
\* the first write is refused, which ends the try block
SaveOutcomes == {"ok", "peersFailed", "failed"}
FailedOutcomes == SaveOutcomes \ {"ok"}

\* variant: a refused write leaves save through its caller
SaveThrows_Propagates(outcome) == outcome # "ok"

\* save catches the error of a refused write and logs it
SaveThrows(outcome) == FALSE

\* localStorage after save with the given outcome of its writes
SaveWith(own, peers, store, outcome) ==
    IF outcome = "ok" THEN Save(own, peers, store)
    ELSE IF outcome = "peersFailed"
         THEN [store EXCEPT !.identity = Save(own, peers, store).identity]
         ELSE store

\* an item of localStorage whose text JSON.parse rejects (written by
\* something other than save); a parsable item has length 1
CorruptItem == <<"corrupt", "corrupt">>
Parses(item) == Len(item) = 1

\* load throws, and returns false from its catch block, when the stored peer
\* collection cannot be parsed
LoadThrows(store) == Len(store.peers) > 1

\* IdentityManager.load at time t: returns the loaded state and the `loaded`
\* flag; the identity item is read and assigned before the peer collection
\* is parsed
Load(own, peers, store, t) ==
    LET own2 == IF store.identity # <<>>
                THEN PeerIdentityNew(store.identity[1], t) ELSE own
        peers2 == IF Parses(store.peers)
                  THEN [p \in DOMAIN store.peers[1] |-> TrustRecordNew(store.peers[1][p], t)]
                  ELSE peers
    IN [ownIdentity |-> own2, knownPeers |-> peers2,
        loaded |-> ~LoadThrows(store) /\ own2 # NullObj]

\* ------------------------------------------------------------------------
\* IdentityManager: addPeer
\* ------------------------------------------------------------------------
\* the announced public info of a peer (what getPublicInfo of its identity
\* yields): the announcer chooses id, key and profile
PeerInfo(id, pub, prof) ==
    [id |-> id, publicKey |-> pub, fingerprint |-> DerivedFingerprint(pub),
     keyId |-> DerivedKeyId(pub), profile |-> prof]
PublicKeys == {PublicKeyB64(k) : k \in Keys}
Profiles == {Profile(n) : n \in Names}
\* every announcement the model considers when it asks what a call would do
AllPeerInfos ==
    {PeerInfo(id, pub, prof) : id \in PeerIds, pub \in PublicKeys \cup {UndefText},
                               prof \in Profiles \cup {UndefObj}}
AllIntroducedByArgs == PeerIds \cup {NullText}
\* the announcements that are made in the behaviours of the model
PeerInfos ==
    {PeerInfo(SubjectId, PublicKeyB64(1), Profile(<<"X">>)),
     PeerInfo(SubjectId, PublicKeyB64(1), Profile(<<"Y">>)),
     PeerInfo(SubjectId, PublicKeyB64(2), Profile(<<"X">>)),
     PeerInfo(OtherId, PublicKeyB64(2), Profile(<<"X">>))}
IntroducedByArgs == {NullText, OtherId}

\* variant: a re-announcement resets the trust decision
AddPeerExisting_ResetsTrust(existing, peerInfo) ==
    [existing EXCEPT !.profile = OrObj(peerInfo.profile, existing.profile),
                     !.publicKey = OrText(peerInfo.publicKey, existing.publicKey),
                     !.trustLevel = "unknown", !.verified = FALSE,
                     !.verifiedMethod = "none"]

\* variant: a re-announcement refreshes the key but keeps the cached profile
AddPeerExisting_KeepsProfile(existing, peerInfo) ==
    [existing EXCEPT !.publicKey = OrText(peerInfo.publicKey, existing.publicKey)]

\* addPeer, existing branch: refresh the cached profile and public key
AddPeerExisting(existing, peerInfo) ==
    [existing EXCEPT !.profile = OrObj(peerInfo.profile, existing.profile),
                     !.publicKey = OrText(peerInfo.publicKey, existing.publicKey)]

\* variant: the introducedBy argument is not handed on
AddPeerNewData_DropsIntroducer(own, peerInfo, introducedBy) ==
    [peerId |-> peerInfo.id, publicKey |-> peerInfo.publicKey,
     fingerprint |-> peerInfo.fingerprint, keyId |-> peerInfo.keyId,
     trustLevel |-> "unknown", trustedBy |-> own.id, trustedAt |-> 0,
     verified |-> FALSE, verifiedMethod |-> UNDEFINED, verifiedAt |-> 0,
     profile |-> OrObj(peerInfo.profile, Profile(peerInfo.id)),
     introducedBy |-> UndefText, signatures |-> <<>>, notes |-> UNDEFINED]

\* variant: a peer announced with a public key starts fully trusted
AddPeerNewData_TrustsKeyHolders(own, peerInfo, introducedBy) ==
    [peerId |-> peerInfo.id, publicKey |-> peerInfo.publicKey,
     fingerprint |-> peerInfo.fingerprint, keyId |-> peerInfo.keyId,
     trustLevel |-> IF OrText(peerInfo.publicKey, NullText) # NullText
                    THEN "full" ELSE "unknown",
     trustedBy |-> own.id, trustedAt |-> 0,
     verified |-> FALSE, verifiedMethod |-> UNDEFINED, verifiedAt |-> 0,
     profile |-> OrObj(peerInfo.profile, Profile(peerInfo.id)),
     introducedBy |-> introducedBy, signatures |-> <<>>, notes |-> UNDEFINED]

\* addPeer, new branch: the data handed to the TrustRecord constructor
AddPeerNewData(own, peerInfo, introducedBy) ==
    [peerId |-> peerInfo.id,
     publicKey |-> peerInfo.publicKey,
     fingerprint |-> peerInfo.fingerprint,
     keyId |-> peerInfo.keyId,
     trustLevel |-> "unknown",
     trustedBy |-> own.id,
     trustedAt |-> 0,
     verified |-> FALSE,
     verifiedMethod |-> UNDEFINED,
     verifiedAt |-> 0,
     profile |-> OrObj(peerInfo.profile, Profile(peerInfo.id)),
     introducedBy |-> introducedBy,
     signatures |-> <<>>,
     notes |-> UNDEFINED]

\* addPeer throws (TypeError on this.ownIdentity.id) for a new peer when
\* there is no own identity
AddPeerThrows(own, peers, peerInfo) == ~Has(peers, peerInfo.id) /\ own = NullObj

\* variant: every announcement stores a freshly constructed record
AddPeerMap_AlwaysCreates(own, peers, peerInfo, introducedBy, t) ==
    IF own = NullObj THEN peers
    ELSE Put(peers, peerInfo.id, TrustRecordNew(AddPeerNewData(own, peerInfo, introducedBy), t))

\* the knownPeers map after addPeer(peerInfo, introducedBy) at time t
AddPeerMap(own, peers, peerInfo, introducedBy, t) ==
    IF Has(peers, peerInfo.id)
    THEN [peers EXCEPT ![peerInfo.id] = AddPeerExisting(@, peerInfo)]
    ELSE IF own = NullObj THEN peers
    ELSE Put(peers, peerInfo.id, TrustRecordNew(AddPeerNewData(own, peerInfo, introducedBy), t))

\* variant: setTrust on a peer without a record starts a record for it
SetTrustMap_Creates(peers, peerId, level, verifiedMethod, t) ==
    IF Has(peers, peerId)
    THEN [peers EXCEPT ![peerId] = TrustRecordSetTrust(@, level, verifiedMethod, t)]
    ELSE Put(peers, peerId,
             TrustRecordSetTrust(
                 TrustRecordNew(AddPeerNewData([id |-> NullText],
                                               PeerInfo(peerId, UndefText, UndefObj), NullText), t),
                 level, verifiedMethod, t))

\* the knownPeers map after setTrust(peerId, level, verifiedMethod) at time t
SetTrustMap(peers, peerId, level, verifiedMethod, t) ==
    IF Has(peers, peerId)
    THEN [peers EXCEPT ![peerId] = TrustRecordSetTrust(@, level, verifiedMethod, t)]
    ELSE peers

\* ------------------------------------------------------------------------
\* IdentityManager: operations
\* ------------------------------------------------------------------------
\* ------------------------------------------------------------------------
\* The page's connections (created by the transport, which is not part of
\* the modelled code)
\* ------------------------------------------------------------------------
Cids == 1..NumConns
\* a connection entry right after its data channel opened: no peer id yet
\* peerId is the id the page recorded for the connection, remote the peer at
\* the far end of the data channel (NullText where the model leaves it open)
FreshConnection == [peerId |-> NullText, open |-> TRUE, remote |-> NullText]

Init ==
    /\ ownIdentity = NullObj
    /\ knownPeers = EmptyMap
    /\ storage = [identity |-> <<>>, peers |-> <<>>]
    /\ now = 1
    /\ connections = EmptyMap
    /\ outbox = {}
    /\ rooms = EmptyMap
    /\ handlers = <<>>
    /\ tasks = EmptyMap
    /\ signaling = SignalingNew
    /\ last = Op("constructor", NullText, FALSE, FALSE)

\* the clock advances
Tick ==
    /\ now < MaxTime
    /\ now' = now + 1
    /\ last' = Op("tick", NullText, FALSE, FALSE)
    /\ UNCHANGED <<ownIdentity, knownPeers, storage, netVars, asyncVars>>

\* new IdentityManager() on a page (re)load: memory is fresh, localStorage stays
NewManager ==
    /\ ownIdentity' = NullObj
    /\ knownPeers' = EmptyMap
    /\ last' = Op("constructor", NullText, FALSE, FALSE)
    /\ UNCHANGED <<storage, now, netVars, asyncVars>>

\* initialize(profile): load, and generate + save when nothing was loaded;
\* k is the generated key pair, n the profile name
InitializeSaving(k, n, outcome) ==
    LET l == Load(ownIdentity, knownPeers, storage, now)
        own2 == IF l.loaded THEN l.ownIdentity ELSE PeerIdentityGenerate(k, n, now)
    IN /\ ownIdentity' = own2
       /\ knownPeers' = l.knownPeers
       /\ storage' = IF l.loaded THEN storage
                     ELSE SaveWith(own2, l.knownPeers, storage, outcome)
       /\ last' = Op("initialize", NullText, FALSE, ~l.loaded /\ SaveThrows(outcome))
       /\ UNCHANGED <<now, netVars, asyncVars>>

\* initialize when localStorage takes the writes
InitializeCall(k, n) == InitializeSaving(k, n, "ok")

\* the key pairs generate() may produce and the names initialize is called with
GenKeys == {1}
InitNames == {<<"X">>}
Initialize == \E k \in GenKeys, n \in InitNames : InitializeCall(k, n)

\* addPeer(peerInfo, introducedBy)
AddPeerSaving(peerInfo, introducedBy, outcome) ==
    LET threw == AddPeerThrows(ownIdentity, knownPeers, peerInfo)
        peers2 == AddPeerMap(ownIdentity, knownPeers, peerInfo, introducedBy, now)
    IN /\ knownPeers' = peers2
       /\ storage' = IF threw THEN storage
                     ELSE SaveWith(ownIdentity, peers2, storage, outcome)
       /\ last' = Op("addPeer", peerInfo.id, Has(knownPeers, peerInfo.id),
                     threw \/ SaveThrows(outcome))
       /\ UNCHANGED <<ownIdentity, now, netVars, asyncVars>>

AddPeerCall(peerInfo, introducedBy) == AddPeerSaving(peerInfo, introducedBy, "ok")

AddPeerFrom(infos, intros) ==
    \E peerInfo \in infos, introducedBy \in intros : AddPeerCall(peerInfo, introducedBy)

AddPeer == AddPeerFrom(PeerInfos, IntroducedByArgs)

LevelArgs == {"unknown", "marginal", "full"}
VerifiedMethodArgs == {NULL, "video"}

\* setTrust(peerId, level, verifiedMethod)
SetTrustSaving(peerId, level, verifiedMethod, outcome) ==
    LET peers2 == SetTrustMap(knownPeers, peerId, level, verifiedMethod, now)
    IN /\ knownPeers' = peers2
       /\ storage' = IF Has(knownPeers, peerId)
                     THEN SaveWith(ownIdentity, peers2, storage, outcome) ELSE storage
       /\ last' = Op("setTrust", peerId, Has(knownPeers, peerId),
                     Has(knownPeers, peerId) /\ SaveThrows(outcome))
       /\ UNCHANGED <<ownIdentity, now, netVars, asyncVars>>

SetTrustCall(peerId, level, verifiedMethod) ==
    SetTrustSaving(peerId, level, verifiedMethod, "ok")

SetTrustFrom(ids, levels, methods) ==
    \E peerId \in ids, level \in levels, verifiedMethod \in methods :
        SetTrustCall(peerId, level, verifiedMethod)

SetTrust == SetTrustFrom(PeerIds, LevelArgs, VerifiedMethodArgs)

\* getPeer(peerId): the record, or undefined (Map.get)
getPeer(peers, peerId) == IF Has(peers, peerId) THEN peers[peerId] ELSE UndefObj
GetPeerCall(peerId) ==
    /\ last' = [op |-> "getPeer", id |-> peerId, existed |-> Has(knownPeers, peerId),
                threw |-> FALSE, found |-> getPeer(knownPeers, peerId) # UndefObj]
    /\ UNCHANGED <<ownIdentity, knownPeers, storage, now, netVars, asyncVars>>
GetPeer == \E peerId \in PeerIds : GetPeerCall(peerId)

\* the page's trust controls: the levels offered, and the peer whose panel
\* is open (activePeerId; the functions return at once while none is open)
UiLevels == {"unknown", "untrusted", "marginal", "full"}
ActivePeerIds == PeerIds \cup {NullText}
\* updateTrustLevel(): identityManager.setTrust(activePeerId, newLevel, 'manual')
UpdateTrustLevelCall(activePeerId, newLevel) ==
    /\ activePeerId # NullText
    /\ SetTrustCall(activePeerId, newLevel, "manual")
\* saveTrustLevel(): the same call from the fingerprint dialog
SaveTrustLevelCall(activePeerId, newLevel) ==
    /\ activePeerId # NullText
    /\ SetTrustCall(activePeerId, newLevel, "manual")
UiControls == {"updateTrustLevel", "saveTrustLevel"}
TrustControls ==
    \E control \in UiControls, activePeerId \in ActivePeerIds, newLevel \in UiLevels :
        IF control = "updateTrustLevel" THEN UpdateTrustLevelCall(activePeerId, newLevel)
        ELSE SaveTrustLevelCall(activePeerId, newLevel)

\* TrustRecord.addSignature on the record of a known peer (the caller holds
\* the record obtained from getPeer; nothing is saved)
SignedByArgs == {OtherId}
SignatureArgs == {<<"sig">>}
AddSignatureCall(peerId, signedBy, signature) ==
    /\ Has(knownPeers, peerId)
    /\ Len(knownPeers[peerId].signatures) < MaxSigs
    /\ knownPeers' = [knownPeers EXCEPT
                         ![peerId] = TrustRecordAddSignature(@, signedBy, signature, now)]
    /\ last' = Op("addSignature", peerId, TRUE, FALSE)
    /\ UNCHANGED <<ownIdentity, storage, now, netVars, asyncVars>>

AddSignature ==
    \E peerId \in PeerIds, signedBy \in SignedByArgs, signature \in SignatureArgs :
        AddSignatureCall(peerId, signedBy, signature)

\* updateProfile(updates)
ProfileUpdates == {[name |-> <<"Y">>], [email |-> <<"y@example">>]}
UpdateProfileSaving(updates, outcome) ==
    LET own2 == IF ownIdentity # NullObj
                THEN IdentityUpdateProfile(ownIdentity, updates) ELSE ownIdentity
    IN /\ ownIdentity' = own2
       /\ storage' = IF ownIdentity # NullObj
                     THEN SaveWith(own2, knownPeers, storage, outcome) ELSE storage
       /\ last' = Op("updateProfile", NullText, FALSE,
                     ownIdentity # NullObj /\ SaveThrows(outcome))
       /\ UNCHANGED <<knownPeers, now, netVars, asyncVars>>

UpdateProfileCall(updates) == UpdateProfileSaving(updates, "ok")

UpdateProfile == \E updates \in ProfileUpdates : UpdateProfileCall(updates)

\* export bundles: [marker, version, payload]; marker says whether the
\* top-level export key is present
Bundle(marker, version, payload) == [marker |-> marker, version |-> version, payload |-> payload]

\* variant: the version of the export is not looked at
ImportIdentityThrows_IgnoresVersion(exportData) == ~exportData.marker

\* PeerIdentity.importIdentity: throws on a missing marker or a version other than '1.0'
ImportIdentityThrows(exportData) == ~exportData.marker \/ exportData.version # "1.0"

IdentityBundles ==
    {Bundle(m, v, PeerIdentityGenerate(2, <<"Y">>, 1)) : m \in BOOLEAN, v \in {"1.0", "2.0"}}

\* importIdentity(exportData)
ImportIdentitySaving(exportData, outcome) ==
    LET threw == ImportIdentityThrows(exportData)
        own2 == IF threw THEN ownIdentity ELSE PeerIdentityNew(exportData.payload, now)
    IN /\ ownIdentity' = own2
       /\ storage' = IF threw THEN storage
                     ELSE SaveWith(own2, knownPeers, storage, outcome)
       /\ last' = Op("importIdentity", NullText, FALSE, threw \/ SaveThrows(outcome))
       /\ UNCHANGED <<knownPeers, now, netVars, asyncVars>>

ImportIdentityCall(exportData) == ImportIdentitySaving(exportData, "ok")

ImportIdentity == \E exportData \in IdentityBundles : ImportIdentityCall(exportData)

\* a peers bundle: `listed` says whether the export holds a peers list;
\* an entry of the list is a record's JSON or null (NullObj)
PeersBundle(marker, version, listed, peers) ==
    [marker |-> marker, version |-> version, listed |-> listed, payload |-> peers]
HasNullEntry(list) == \E i \in 1..Len(list) : list[i] = NullObj

\* importKnownPeers throws on a missing marker (Error), on a missing list
\* (the for-of over undefined) and on a null entry (the TrustRecord
\* constructor reads data.peerId); the version is not looked at
ImportKnownPeersThrows(exportData) ==
    \/ ~exportData.marker
    \/ ~exportData.listed
    \/ HasNullEntry(exportData.payload)

RECURSIVE ImportPeersLoop(_, _, _, _)
\* the for-of loop of importKnownPeers over entries i..Len(list); it ends at
\* the entry that makes the constructor throw
ImportPeersLoop(peers, list, i, t) ==
    IF i > Len(list) \/ list[i] = NullObj THEN peers
    ELSE LET record == TrustRecordNew(list[i], t)
         IN ImportPeersLoop(Put(peers, record.peerId, record), list, i + 1, t)

\* the knownPeers map after importKnownPeers(exportData) at time t
ImportKnownPeersMap(peers, exportData, t) ==
    IF ~exportData.marker \/ ~exportData.listed THEN peers
    ELSE ImportPeersLoop(peers, exportData.payload, 1, t)

\* a record as exportKnownPeers of some other installation would hold it
ExportedRecord(id, k, level, method, t) ==
    [peerId |-> id, publicKey |-> PublicKeyB64(k), fingerprint |-> FingerprintOf[k],
     keyId |-> KeyIdOf[k], trustLevel |-> level, trustedBy |-> PeerIdOf[2],
     trustedAt |-> t, verified |-> method # "none", verifiedMethod |-> method,
     verifiedAt |-> IF method # "none" THEN t ELSE 0,
     profile |-> Profile(<<"Y">>), introducedBy |-> NullText, signatures |-> <<>>,
     notes |-> ""]

\* the bundles imported in the model: a version 1.0 export, an export of
\* another version, one without the marker, one whose second entry is null
\* and one without a peers list
PeerBundles ==
    {PeersBundle(TRUE, "1.0", TRUE, <<ExportedRecord(SubjectId, 1, "full", "in-person", 1)>>),
     PeersBundle(TRUE, "2.0", TRUE, <<ExportedRecord(SubjectId, 1, "unknown", "none", 1)>>),
     PeersBundle(FALSE, "1.0", TRUE, <<ExportedRecord(SubjectId, 1, "full", "in-person", 1)>>),
     PeersBundle(TRUE, "1.0", TRUE, <<ExportedRecord(OtherId, 2, "marginal", "none", 1), NullObj>>),
     PeersBundle(TRUE, "1.0", FALSE, <<>>)}

\* importKnownPeers(exportData)
ImportKnownPeersSaving(exportData, outcome) ==
    LET threw == ImportKnownPeersThrows(exportData)
        peers2 == ImportKnownPeersMap(knownPeers, exportData, now)
    IN /\ knownPeers' = peers2
       /\ storage' = IF threw THEN storage
                     ELSE SaveWith(ownIdentity, peers2, storage, outcome)
       /\ last' = Op("importKnownPeers", NullText, FALSE, threw \/ SaveThrows(outcome))
       /\ UNCHANGED <<ownIdentity, now, netVars, asyncVars>>

ImportKnownPeersCall(exportData) == ImportKnownPeersSaving(exportData, "ok")

ImportKnownPeers == \E exportData \in PeerBundles : ImportKnownPeersCall(exportData)

\* clear()
Clear ==
    /\ ownIdentity' = NullObj
    /\ knownPeers' = EmptyMap
    /\ storage' = [identity |-> <<>>, peers |-> <<>>]
    /\ last' = Op("clear", NullText, FALSE, FALSE)
    /\ UNCHANGED <<now, netVars, asyncVars>>

\* ------------------------------------------------------------------------
\* initMessageHandlers: the HELLO and INTRODUCE handlers.  The handlers are
\* registered by setUsername after initialize() returned, so they run only
\* with an own identity; the page's `ownIdentity` and `peerId` globals are
\* that identity and its id.  Display state (roster, status line, system
\* messages, remotePeerId) is not part of the model.
\* ------------------------------------------------------------------------
\* the transport opens the data channel of a new connection
ConnectionOpen ==
    \E c \in Cids :
        /\ ~Has(connections, c)
        /\ connections' = Put(connections, c, FreshConnection)
        /\ outbox' = {}
        /\ last' = Op("connectionOpen", NullText, FALSE, FALSE)
        /\ UNCHANGED <<ownIdentity, knownPeers, storage, now, rooms, asyncVars>>

\* the loop both handlers start with: the first connection (in insertion
\* order) that is open and has no peer id gets the given id
Unassociated(conns) == {c \in DOMAIN conns : conns[c].peerId = NullText /\ conns[c].open}
Min(S) == CHOOSE x \in S : \A y \in S : x <= y
Associate(conns, id) ==
    IF Unassociated(conns) = {} THEN conns
    ELSE [conns EXCEPT ![Min(Unassociated(conns))].peerId = id]

\* getConnectionByPeerId: the connection registered for a peer id, if any
ConnectionsOf(conns, id) == {c \in DOMAIN conns : conns[c].peerId = id}
HasOpenConnection(conns, id) ==
    ConnectionsOf(conns, id) # {} /\ conns[Min(ConnectionsOf(conns, id))].open

\* buildPeerInfo: the announced-info view of a TrustRecord
buildPeerInfo(record) ==
    [id |-> record.peerId, publicKey |-> record.publicKey,
     fingerprint |-> record.fingerprint, keyId |-> record.keyId,
     profile |-> record.profile]

\* MessageFactory.createIntroduce(from, to, peerInfo), sent on connection c
Introduce(c, from, to, peerInfo) ==
    [cid |-> c, action |-> "introduce", from |-> from, to |-> to, peerInfo |-> peerInfo]

\* the INTRODUCE messages the HELLO handler sends after it stored the newcomer
HelloIntroductions(own, peers, conns, peerInfo) ==
    LET newcomerOpen == HasOpenConnection(conns, peerInfo.id)
        nc == Min(ConnectionsOf(conns, peerInfo.id))
        introSelf == IF newcomerOpen
                     THEN {Introduce(nc, own.id, peerInfo.id, getPublicInfo(own))} ELSE {}
        toOthers == IF Cardinality(DOMAIN conns) > 1
                    THEN {Introduce(c, own.id, conns[c].peerId, peerInfo) :
                            c \in {d \in DOMAIN conns : /\ conns[d].peerId # NullText
                                                        /\ conns[d].peerId # peerInfo.id
                                                        /\ conns[d].open}}
                    ELSE {}
        toNewcomer == IF Cardinality(DOMAIN conns) > 1 /\ newcomerOpen
                      THEN {Introduce(nc, own.id, peerInfo.id, buildPeerInfo(peers[p])) :
                              p \in DOMAIN peers \ {peerInfo.id}}
                      ELSE {}
    IN introSelf \cup toOthers \cup toNewcomer

\* variant: the handler sets 'unknown' after every HELLO, known peer or not
HelloPeersMap_AlwaysResets(own, peers, peerInfo, t) ==
    IF OrText(peerInfo.publicKey, NullText) = NullText THEN peers
    ELSE SetTrustMap(AddPeerMap(own, peers, peerInfo, NullText, t),
                     peerInfo.id, "unknown", NULL, t)

\* variant: the handler trusts a peer that re-announces the cached key
HelloPeersMap_TrustsKnownKey(own, peers, peerInfo, t) ==
    IF OrText(peerInfo.publicKey, NullText) = NullText THEN peers
    ELSE LET added == AddPeerMap(own, peers, peerInfo, NullText, t)
         IN IF ~Has(peers, peerInfo.id)
            THEN SetTrustMap(added, peerInfo.id, "unknown", NULL, t)
            ELSE IF peers[peerInfo.id].publicKey = peerInfo.publicKey
                 THEN SetTrustMap(added, peerInfo.id, "full", NULL, t)
                 ELSE added

\* the knownPeers map after the HELLO handler's getPeer / addPeer / setTrust
HelloPeersMap(own, peers, peerInfo, t) ==
    IF OrText(peerInfo.publicKey, NullText) = NullText THEN peers
    ELSE LET added == AddPeerMap(own, peers, peerInfo, NullText, t)
         IN IF ~Has(peers, peerInfo.id)
            THEN SetTrustMap(added, peerInfo.id, "unknown", NULL, t)
            ELSE added

HelloMessage(from, peerInfo) == [from |-> from, peerInfo |-> peerInfo]
\* the announcements peers make over the network in the model
NetPeerInfos ==
    {PeerInfo(SubjectId, PublicKeyB64(1), Profile(<<"X">>)),
     PeerInfo(OtherId, PublicKeyB64(2), Profile(<<"X">>))}
\* the HELLO messages received in the model: every announcement from its own
\* peer, an announcement without a public key, and one relayed under another id
HelloMessages ==
    {HelloMessage(i.id, i) : i \in NetPeerInfos}
    \cup {HelloMessage(SubjectId, PeerInfo(SubjectId, UndefText, Profile(<<"X">>))),
          HelloMessage(OtherId, PeerInfo(SubjectId, PublicKeyB64(2), Profile(<<"Y">>)))}

\* the handler registered for SYSTEM / HELLO
HandleHelloCall(message) ==
    LET peerInfo == message.peerInfo
        hasKey == OrText(peerInfo.publicKey, NullText) # NullText
        conns2 == Associate(connections, message.from)
        peers2 == HelloPeersMap(ownIdentity, knownPeers, peerInfo, now)
    IN /\ ownIdentity # NullObj
       /\ connections' = conns2
       /\ knownPeers' = peers2
       /\ storage' = IF hasKey THEN Save(ownIdentity, peers2, storage) ELSE storage
       /\ outbox' = IF hasKey
                    THEN HelloIntroductions(ownIdentity, peers2, conns2, peerInfo) ELSE {}
       /\ last' = Op("hello", peerInfo.id, Has(knownPeers, peerInfo.id), FALSE)
       /\ UNCHANGED <<ownIdentity, now, rooms, asyncVars>>

HandleHello == \E message \in HelloMessages : HandleHelloCall(message)

\* the peers that join the host's room: every key pair but the host's, and
\* one more
GuestKeys == (Keys \ GenKeys) \cup {NumKeys + 1}
\* what a guest announces: getPublicInfo() of its generated identity
GuestInfo(k) ==
    [id |-> generatePeerId(k), publicKey |-> PublicKeyB64(k),
     fingerprint |-> formatFingerprint(sha256(k), TRUE), keyId |-> generateKeyId(k),
     profile |-> Profile(<<"X">>)]
GuestHellos == {HelloMessage(GuestInfo(k).id, GuestInfo(k)) : k \in GuestKeys}

\* the data channel to a guest opens
GuestConnects ==
    \E c \in Cids, k \in GuestKeys :
        /\ ~Has(connections, c)
        /\ \A d \in DOMAIN connections : connections[d].remote # GuestInfo(k).id
        /\ connections' = Put(connections, c, [FreshConnection EXCEPT !.remote = GuestInfo(k).id])
        /\ outbox' = {}
        /\ last' = Op("connectionOpen", GuestInfo(k).id, FALSE, FALSE)
        /\ UNCHANGED <<ownIdentity, knownPeers, storage, now, rooms, asyncVars>>

\* the HELLO a connected guest sends once its channel is open reaches the host
GuestHello ==
    \E message \in GuestHellos :
        /\ \E c \in DOMAIN connections : connections[c].remote = message.from
        /\ ~Has(knownPeers, message.from)
        /\ HandleHelloCall(message)

\* variant: an introduction replaces what was known by the introduced peer
IntroducePeersMap_Replaces(own, peers, info, t) ==
    AddPeerMap(own, EmptyMap, info, NullText, t)

\* the knownPeers map after the INTRODUCE handler's getPeer / addPeer
IntroducePeersMap(own, peers, info, t) ==
    IF Has(peers, info.id) THEN peers ELSE AddPeerMap(own, peers, info, NullText, t)

IntroduceMessages ==
    {HelloMessage(OtherId, i) : i \in NetPeerInfos}
    \cup {HelloMessage(OtherId, PeerInfo(NullText, UndefText, UndefObj))}

\* the handler registered for SYSTEM / INTRODUCE
HandleIntroduceCall(message) ==
    LET info == message.peerInfo
        skip == OrText(info.id, NullText) = NullText
        peers2 == IF skip THEN knownPeers
                  ELSE IntroducePeersMap(ownIdentity, knownPeers, info, now)
    IN /\ ownIdentity # NullObj
       /\ connections' = IF skip THEN connections ELSE Associate(connections, info.id)
       /\ knownPeers' = peers2
       /\ storage' = IF skip \/ Has(knownPeers, info.id)
                     THEN storage ELSE Save(ownIdentity, peers2, storage)
       /\ outbox' = {}
       /\ last' = Op("introduce", info.id, ~skip /\ Has(knownPeers, info.id), FALSE)
       /\ UNCHANGED <<ownIdentity, now, rooms, asyncVars>>

HandleIntroduce == \E message \in IntroduceMessages : HandleIntroduceCall(message)

\* ------------------------------------------------------------------------
\* The HELLO handler as the async function it is: a run is suspended at
\* `await identityManager.addPeer(peerInfo)` and at `await
\* identityManager.setTrust(peerInfo.id, 'unknown')`, and whatever else is
\* ready runs in between.  addPeer and setTrust change the map and call save
\* before they suspend themselves, so their effect is complete at the await.
\* ------------------------------------------------------------------------
Remove(map, key) == [q \in DOMAIN map \ {key} |-> map[q]]
TaskIds == 1..MaxTasks
FreeTask == Min(TaskIds \ DOMAIN tasks)

\* from the handler's entry to `await identityManager.addPeer(peerInfo)`;
\* pending is what else is suspended once the handler is
HelloBegins(message, pending, name) ==
    LET peerInfo == message.peerInfo
        existingRecord == getPeer(knownPeers, peerInfo.id)
        peers2 == AddPeerMap(ownIdentity, knownPeers, peerInfo, NullText, now)
    IN /\ ownIdentity # NullObj
       /\ OrText(peerInfo.publicKey, NullText) # NullText
       /\ TaskIds \ DOMAIN tasks # {}
       /\ connections' = Associate(connections, message.from)
       /\ knownPeers' = peers2
       /\ storage' = Save(ownIdentity, peers2, storage)
       /\ tasks' = Put(pending, FreeTask,
                       [kind |-> "hello", pc |-> "addPeer", message |-> message,
                        known |-> existingRecord # UndefObj])
       /\ outbox' = {}
       /\ last' = Op(name, peerInfo.id, Has(knownPeers, peerInfo.id), FALSE)
       /\ UNCHANGED <<ownIdentity, now, rooms, handlers, signaling>>

HelloStartCall(message) == HelloBegins(message, tasks, "helloStart")

\* the INTRODUCE handler up to `await identityManager.addPeer(info)`; for a
\* known peer it returns without suspending
IntroduceBegins(message, pending, name) ==
    LET info == message.peerInfo
        existing == getPeer(knownPeers, info.id)
        peers2 == AddPeerMap(ownIdentity, knownPeers, info, NullText, now)
    IN /\ ownIdentity # NullObj
       /\ OrText(info.id, NullText) # NullText
       /\ TaskIds \ DOMAIN tasks # {}
       /\ connections' = Associate(connections, info.id)
       /\ IF existing = UndefObj
          THEN /\ knownPeers' = peers2
               /\ storage' = Save(ownIdentity, peers2, storage)
               /\ tasks' = Put(pending, FreeTask,
                               [kind |-> "introduce", pc |-> "addPeer",
                                message |-> message, known |-> FALSE])
          ELSE /\ tasks' = pending
               /\ UNCHANGED <<knownPeers, storage>>
       /\ outbox' = {}
       /\ last' = Op(name, info.id, Has(knownPeers, info.id), FALSE)
       /\ UNCHANGED <<ownIdentity, now, rooms, handlers, signaling>>

\* from the return of addPeer to the end of the INTRODUCE handler
IntroduceFinishCall(t) ==
    /\ tasks[t].kind = "introduce"
    /\ tasks' = Remove(tasks, t)
    /\ outbox' = {}
    /\ last' = Op("introduceFinish", tasks[t].message.peerInfo.id, TRUE, FALSE)
    /\ UNCHANGED <<ownIdentity, knownPeers, storage, now, connections, rooms,
                   handlers, signaling>>

\* from the return of addPeer: `if (!existingRecord) await setTrust(id,
\* 'unknown')`, or else on to the introductions and the end of the handler
HelloResumeCall(t) ==
    LET peerInfo == tasks[t].message.peerInfo
        peers2 == SetTrustMap(knownPeers, peerInfo.id, "unknown", NULL, now)
    IN /\ tasks[t].kind = "hello"
       /\ tasks[t].pc = "addPeer"
       /\ IF ~tasks[t].known
          THEN /\ knownPeers' = peers2
               /\ storage' = IF Has(knownPeers, peerInfo.id)
                             THEN Save(ownIdentity, peers2, storage) ELSE storage
               /\ tasks' = [tasks EXCEPT ![t].pc = "setTrust"]
               /\ outbox' = {}
          ELSE /\ outbox' = HelloIntroductions(ownIdentity, knownPeers, connections, peerInfo)
               /\ tasks' = Remove(tasks, t)
               /\ UNCHANGED <<knownPeers, storage>>
       /\ last' = Op("helloResume", peerInfo.id, Has(knownPeers, peerInfo.id), FALSE)
       /\ UNCHANGED <<ownIdentity, now, connections, rooms, handlers, signaling>>

\* from the return of setTrust to the end of the handler
HelloFinishCall(t) ==
    LET peerInfo == tasks[t].message.peerInfo
    IN /\ tasks[t].kind = "hello"
       /\ tasks[t].pc = "setTrust"
       /\ outbox' = HelloIntroductions(ownIdentity, knownPeers, connections, peerInfo)
       /\ tasks' = Remove(tasks, t)
       /\ last' = Op("helloFinish", peerInfo.id, Has(knownPeers, peerInfo.id), FALSE)
       /\ UNCHANGED <<ownIdentity, knownPeers, storage, now, connections, rooms,
                      handlers, signaling>>

HelloStart == \E message \in GuestHellos : HelloStartCall(message)
HelloResume == \E t \in DOMAIN tasks : HelloResumeCall(t)
HelloFinish == \E t \in DOMAIN tasks : HelloFinishCall(t)
IntroduceFinish == \E t \in DOMAIN tasks : IntroduceFinishCall(t)

\* ------------------------------------------------------------------------
\* initMessageHandlers: the other handlers.  GOODBYE, ERROR and TEXT change
\* display state only; PING answers; ROOM_ANNOUNCE writes the room store.
\* ------------------------------------------------------------------------
\* the handler registered for SYSTEM / GOODBYE
HandleGoodbyeCall(from) ==
    /\ ownIdentity # NullObj
    /\ outbox' = {}
    /\ last' = Op("goodbye", from, Has(knownPeers, from), FALSE)
    /\ UNCHANGED <<ownIdentity, knownPeers, storage, now, connections, rooms, asyncVars>>

HandleGoodbye == \E from \in PeerIds : HandleGoodbyeCall(from)

\* MessageFactory.createPong(from, to, pingId)
Pong(from, to) == [action |-> "pong", from |-> from, to |-> to]

\* the handler registered for SYSTEM / PING
HandlePingCall(from) ==
    /\ ownIdentity # NullObj
    /\ outbox' = {Pong(ownIdentity.id, from)}
    /\ last' = Op("ping", from, Has(knownPeers, from), FALSE)
    /\ UNCHANGED <<ownIdentity, knownPeers, storage, now, connections, rooms, asyncVars>>

HandlePing == \E from \in PeerIds : HandlePingCall(from)

\* the handler registered for SYSTEM / ERROR
HandleErrorCall(from) ==
    /\ ownIdentity # NullObj
    /\ outbox' = {}
    /\ last' = Op("error", from, Has(knownPeers, from), FALSE)
    /\ UNCHANGED <<ownIdentity, knownPeers, storage, now, connections, rooms, asyncVars>>

HandleError == \E from \in PeerIds : HandleErrorCall(from)

\* the handler registered for TEXT
HandleTextCall(from) ==
    /\ ownIdentity # NullObj
    /\ outbox' = {}
    /\ last' = Op("text", from, Has(knownPeers, from), FALSE)
    /\ UNCHANGED <<ownIdentity, knownPeers, storage, now, connections, rooms, asyncVars>>

HandleText == \E from \in PeerIds : HandleTextCall(from)

\* an announced room; a number that is absent from the payload is 0
RoomCode == <<"ROOM01">>
Room(code, version, lastActive) ==
    [code |-> code, name |-> UndefText, creator |-> UndefText, createdAt |-> 0,
     version |-> version, lastActive |-> lastActive]

\* variant: an announcement of the stored version replaces the stored room
ShouldPut_SameVersionWins(store, room) ==
    \/ ~Has(store, room.code)
    \/ OrNum(room.version, 0) >= OrNum(store[room.code].version, 0)

\* the handler's decision to store an announced room
ShouldPut(store, room) ==
    \/ ~Has(store, room.code)
    \/ OrNum(room.version, 0) > OrNum(store[room.code].version, 0)
    \/ /\ OrNum(room.version, 0) = OrNum(store[room.code].version, 0)
       /\ OrNum(room.lastActive, 0) > OrNum(store[room.code].lastActive, 0)

\* the record the handler builds with Object.assign(defaults, room)
AnnouncedRecord(room, from, t) ==
    [code |-> room.code,
     name |-> OrText(room.name, room.code),
     creator |-> OrText(room.creator, from),
     createdAt |-> OrNum(room.createdAt, t),
     lastActive |-> OrNum(room.lastActive, t),
     capacity |-> 0,
     privacy |-> "invite",
     version |-> OrNum(room.version, 1)]

\* RoomStore.putRoom at time t: increments the version and stores the room
\* under its code
putRoom(store, room, t) ==
    Put(store, room.code, [room EXCEPT !.version = OrNum(@, 0) + 1,
                                       !.lastActive = OrNum(@, t)])

RoomMessage(from, room) == [from |-> from, room |-> room]
RoomAnnouncements ==
    {RoomMessage(OtherId, Room(RoomCode, 1, 1)),
     RoomMessage(OtherId, Room(RoomCode, 2, 1)),
     RoomMessage(SubjectId, NullObj)}

\* the handler registered for SYSTEM / ROOM_ANNOUNCE
HandleRoomAnnounceCall(message) ==
    LET room == message.room
        skip == room = NullObj \/ OrText(room.code, NullText) = NullText
    IN /\ ownIdentity # NullObj
       /\ rooms' = IF ~skip /\ ShouldPut(rooms, room)
                   THEN putRoom(rooms, AnnouncedRecord(room, message.from, now), now)
                   ELSE rooms
       /\ outbox' = {}
       /\ last' = [op |-> "roomAnnounce", id |-> message.from,
                   existed |-> Has(knownPeers, message.from), threw |-> FALSE,
                   had |-> ~skip /\ Has(rooms, room.code),
                   put |-> ~skip /\ ShouldPut(rooms, room)]
       /\ UNCHANGED <<ownIdentity, knownPeers, storage, now, connections, asyncVars>>

HandleRoomAnnounce == \E message \in RoomAnnouncements : HandleRoomAnnounceCall(message)

\* The ROOM_ANNOUNCE handler as the async function it is: a run is suspended
\* at `await getRoom(room.code)` and at `await putRoom(rec)`.  Entering the
\* handler changes nothing, so a run begins with the read of its getRoom
\* (an IndexedDB request served some time after the call); putRoom changes
\* rec and queues the write when it is called.  seen (kept in last) is the
\* set of rooms announced so far.
Seen == IF "seen" \in DOMAIN last THEN last.seen ELSE {}

\* the handler is called and its getRoom request is served
RoomReadCall(message) ==
    LET room == message.room
    IN /\ ownIdentity # NullObj
       /\ room # NullObj /\ OrText(room.code, NullText) # NullText
       /\ TaskIds \ DOMAIN tasks # {}
       /\ tasks' = Put(tasks, FreeTask,
                       [kind |-> "room", pc |-> "getRoom", message |-> message,
                        existing |-> IF Has(rooms, room.code)
                                     THEN Put(EmptyMap, room.code, rooms[room.code])
                                     ELSE EmptyMap])
       /\ last' = [op |-> "roomRead", id |-> message.from, existed |-> FALSE,
                   threw |-> FALSE, seen |-> Seen \cup {room}]
       /\ UNCHANGED <<ownIdentity, knownPeers, storage, now, netVars, handlers, signaling>>

\* from the return of getRoom: shouldPut is decided from what was read, and
\* putRoom is called; the handler ends when putRoom returns
RoomPutCall(t) ==
    LET message == tasks[t].message
        room == message.room
    IN /\ tasks[t].kind = "room"
       /\ rooms' = IF ShouldPut(tasks[t].existing, room)
                   THEN putRoom(rooms, AnnouncedRecord(room, message.from, now), now)
                   ELSE rooms
       /\ tasks' = Remove(tasks, t)
       /\ outbox' = {}
       /\ last' = [op |-> "roomPut", id |-> message.from, existed |-> FALSE,
                   threw |-> FALSE, seen |-> Seen]
       /\ UNCHANGED <<ownIdentity, knownPeers, storage, now, connections, handlers,
                      signaling>>

\* announcements that carry a version and a lastActive
VersionedRooms == {Room(RoomCode, v, la) : v \in 1..MaxTime, la \in 1..MaxTime}
RoomRead == \E room \in VersionedRooms : RoomReadCall(RoomMessage(OtherId, room))
RoomPut == \E t \in DOMAIN tasks : RoomPutCall(t)

\* announcements about one room code with every version and lastActive of
\* the model (0: the payload does not carry the field)
AnnouncedRooms == {Room(RoomCode, v, la) : v \in 0..MaxTime, la \in 0..MaxTime}
AnnounceRoom ==
    \E room \in AnnouncedRooms, from \in PeerIds : HandleRoomAnnounceCall(RoomMessage(from, room))

\* ------------------------------------------------------------------------
\* MessageValidator and MessageHandler.handle
\* ------------------------------------------------------------------------
\* A received message is a record of the fields it carries (a field it
\* lacks is outside its DOMAIN).  protocol and type are strings; version,
\* id, from, to and replyTo are texts, with NullText for a value that is not
\* a string; timestamp is a number of the clock `now`; payload is a record
\* or NullObj; size is the byte length of the message's JSON text.
PROTOCOL_NAME == "lp2p"
MESSAGE_TYPES == {"text", "file", "data", "system", "control"}
SYSTEM_ACTIONS ==
    {"hello", "goodbye", "ping", "pong", "listPeers", "peerList", "error", "introduce",
     "roomAnnounce"}
FILE_ACTIONS == {"offer", "accept", "reject", "chunk", "cancel", "complete"}
CONTROL_ACTIONS == {"typing", "read", "focus", "away"}
MAX_MESSAGE_SIZE == 10485760
MAX_TEXT_SIZE == 65536
PEER_ID_MIN == 3
PEER_ID_MAX == 64
\* five minutes, in steps of the clock `now`
TIME_TOLERANCE == 1

HasField(obj, f) == f \in DOMAIN obj
IsStringText(text) == text # NullText /\ text # UndefText
\* !obj.f for a string-valued field
Falsy(obj, f) == ~HasField(obj, f) \/ obj[f] = "" \/ obj[f] = NULL \/ obj[f] = UNDEFINED

IsDigit(c) == c \in {"0", "1", "2", "3", "4", "5", "6", "7", "8", "9"}
IsHexDigit(c) == IsDigit(c) \/ c \in {"a", "b", "c", "d", "e", "f", "A", "B", "C", "D", "E", "F"}
Digits(text, a, b) == a <= b /\ \A k \in a..b : IsDigit(text[k])
\* /^\d+\.\d+(\.\d+)?$/
MatchesSemver(text) ==
    \E i \in 1..Len(text) :
        /\ text[i] = "."
        /\ Digits(text, 1, i - 1)
        /\ \/ Digits(text, i + 1, Len(text))
           \/ \E j \in (i + 1)..Len(text) :
                  /\ text[j] = "."
                  /\ Digits(text, i + 1, j - 1)
                  /\ Digits(text, j + 1, Len(text))
\* /^[0-9a-f]{8}-[0-9a-f]{4}-4[0-9a-f]{3}-[89ab][0-9a-f]{3}-[0-9a-f]{12}$/i
MatchesUuidV4(text) ==
    /\ Len(text) = 36
    /\ \A k \in 1..36 :
          IF k \in {9, 14, 19, 24} THEN text[k] = "-"
          ELSE IF k = 15 THEN text[k] = "4"
          ELSE IF k = 20 THEN text[k] \in {"8", "9", "a", "b", "A", "B"}
          ELSE IsHexDigit(text[k])

\* MessageValidator.validateStructure
validateStructure(message) ==
    SelectSeq(<<"protocol", "version", "id", "type", "from", "to", "timestamp", "payload">>,
              LAMBDA field : ~HasField(message, field))

\* one entry of an error list
ErrorIf(cond, error) == IF cond THEN <<error>> ELSE <<>>

\* MessageValidator.validateTypes (metadata, where a message carries it, is
\* a record)
validateTypes(message) ==
    ErrorIf(message.protocol # PROTOCOL_NAME, "protocol")
    \o ErrorIf(~IsStringText(message.version) \/ ~MatchesSemver(message.version), "version")
    \o ErrorIf(~IsStringText(message.id) \/ ~MatchesUuidV4(message.id), "id")
    \o ErrorIf(message.type \notin MESSAGE_TYPES, "type")
    \o ErrorIf(\/ ~IsStringText(message.from)
               \/ Len(message.from) < PEER_ID_MIN
               \/ Len(message.from) > PEER_ID_MAX, "from")
    \o ErrorIf(\/ ~IsStringText(message.to)
               \/ /\ message.to # <<"*">>
                  /\ (Len(message.to) < PEER_ID_MIN \/ Len(message.to) > PEER_ID_MAX), "to")
    \o ErrorIf(message.timestamp < 0, "timestamp")
    \o ErrorIf(message.payload = NullObj, "payload")
    \o ErrorIf(HasField(message, "replyTo") /\ ~IsStringText(message.replyTo), "replyTo")

Abs(n) == IF n < 0 THEN 0 - n ELSE n

\* variant: the timestamp is not compared with the clock
validateSemantics_NoClock(message, t) ==
    ErrorIf(message.size > MAX_MESSAGE_SIZE, "size")

\* MessageValidator.validateSemantics at time t
validateSemantics(message, t) ==
    ErrorIf(Abs(t - message.timestamp) > TIME_TOLERANCE, "timestamp too far")
    \o ErrorIf(message.size > MAX_MESSAGE_SIZE, "size")

\* MessageValidator.validateTextPayload
validateTextPayload(payload) ==
    ErrorIf(\/ ~HasField(payload, "text")
            \/ ~IsStringText(payload.text)
            \/ payload.text = <<>>
            \/ Len(payload.text) > MAX_TEXT_SIZE, "text")
    \o ErrorIf(~Falsy(payload, "format")
               /\ payload.format \notin {"plain", "markdown", "html"}, "format")
\* MessageValidator.validateFilePayload
validateFilePayload(payload) ==
    LET isOffer == HasField(payload, "action") /\ payload.action = "offer"
        isChunk == HasField(payload, "action") /\ payload.action = "chunk"
    IN ErrorIf(Falsy(payload, "action") \/ payload.action \notin FILE_ACTIONS, "action")
       \o ErrorIf(Falsy(payload, "fileId"), "fileId")
       \o ErrorIf(isOffer /\ Falsy(payload, "name"), "name")
       \o ErrorIf(isOffer /\ (~HasField(payload, "size") \/ payload.size <= 0), "size")
       \o ErrorIf(isOffer /\ Falsy(payload, "mimeType"), "mimeType")
       \o ErrorIf(isChunk /\ ~HasField(payload, "chunkIndex"), "chunkIndex")
       \o ErrorIf(isChunk /\ Falsy(payload, "data"), "data")
\* MessageValidator.validateDataPayload
validateDataPayload(payload) ==
    ErrorIf(Falsy(payload, "dataType"), "dataType")
    \o ErrorIf(Falsy(payload, "schema"), "schema")
    \o ErrorIf(Falsy(payload, "content"), "content")
\* MessageValidator.validateSystemPayload
validateSystemPayload(payload) ==
    ErrorIf(Falsy(payload, "action") \/ payload.action \notin SYSTEM_ACTIONS, "action")
\* MessageValidator.validateControlPayload
validateControlPayload(payload) ==
    ErrorIf(Falsy(payload, "action") \/ payload.action \notin CONTROL_ACTIONS, "action")

\* MessageValidator.validatePayload
validatePayload(message) ==
    IF message.type = "text" THEN validateTextPayload(message.payload)
    ELSE IF message.type = "file" THEN validateFilePayload(message.payload)
    ELSE IF message.type = "data" THEN validateDataPayload(message.payload)
    ELSE IF message.type = "system" THEN validateSystemPayload(message.payload)
    ELSE IF message.type = "control" THEN validateControlPayload(message.payload)
    ELSE <<>>

\* validate itself throws (a TypeError) when the payload validators read a
\* field of a null payload
validateThrows(message) ==
    /\ validateStructure(message) = <<>>
    /\ message.payload = NullObj
    /\ message.type \in MESSAGE_TYPES

\* MessageValidator.validate at time t: [valid, errors]
validate(message, t) ==
    LET structure == validateStructure(message)
        errors == IF structure # <<>> THEN structure
                  ELSE validateTypes(message) \o validateSemantics(message, t)
                       \o validatePayload(message)
    IN [valid |-> errors = <<>>, errors |-> errors]

\* the messages of the model as they arrive
MessageId ==
    << "1", "2", "3", "e", "4", "5", "6", "7", "-", "e", "8", "9", "b", "-",
       "4", "2", "d", "3", "-", "a", "4", "5", "6", "-",
       "4", "2", "6", "6", "1", "4", "1", "7", "4", "0", "0", "0" >>
Wire(type, from, payload, t) ==
    [protocol |-> PROTOCOL_NAME, version |-> <<"1", ".", "0">>, id |-> MessageId,
     type |-> type, from |-> from, to |-> <<"*">>, timestamp |-> t,
     payload |-> payload, size |-> 512]
WireHello(from, peerInfo, t) ==
    Wire("system", from, [action |-> "hello", peerInfo |-> peerInfo], t)
WireIntroduce(from, peerInfo, t) ==
    Wire("system", from, [action |-> "introduce", peerInfo |-> peerInfo], t)
BaseMessages(t) ==
    {WireHello(i.id, i, t) : i \in NetPeerInfos}
    \cup {WireIntroduce(OtherId, PeerInfo(SubjectId, PublicKeyB64(1), Profile(<<"X">>)), t),
          Wire("system", OtherId, [action |-> "ping"], t),
          Wire("system", OtherId, [action |-> "pong"], t),
          Wire("text", SubjectId, [text |-> <<"h", "i">>, format |-> "plain"], t)}

\* the ways a message of the model is damaged
Defects ==
    {"noProtocol", "noPayload", "wrongProtocol", "badVersion", "badId", "unknownType",
     "shortFrom", "longTo", "negativeTime", "stale", "early", "tooLarge", "nullPayload",
     "noAction", "unknownAction", "badReplyTo"}
Without(message, field) == [f \in DOMAIN message \ {field} |-> message[f]]
Damaged(message, defect) ==
    IF defect = "noProtocol" THEN Without(message, "protocol")
    ELSE IF defect = "noPayload" THEN Without(message, "payload")
    ELSE IF defect = "wrongProtocol" THEN [message EXCEPT !.protocol = "xp2p"]
    ELSE IF defect = "badVersion" THEN [message EXCEPT !.version = <<"1", ".">>]
    ELSE IF defect = "badId" THEN [message EXCEPT !.id[15] = "1"]
    ELSE IF defect = "unknownType" THEN [message EXCEPT !.type = "video"]
    ELSE IF defect = "shortFrom" THEN [message EXCEPT !.from = <<"p", "e">>]
    ELSE IF defect = "longTo" THEN [message EXCEPT !.to = [k \in 1..(PEER_ID_MAX + 1) |-> "x"]]
    ELSE IF defect = "negativeTime" THEN [message EXCEPT !.timestamp = 0 - 1]
    ELSE IF defect = "stale"
         THEN [message EXCEPT !.timestamp = @ - (TIME_TOLERANCE + 1)]
    ELSE IF defect = "early"
         THEN [message EXCEPT !.timestamp = @ + (TIME_TOLERANCE + 1)]
    ELSE IF defect = "tooLarge" THEN [message EXCEPT !.size = MAX_MESSAGE_SIZE + 1]
    ELSE IF defect = "nullPayload" THEN [message EXCEPT !.payload = NullObj]
    ELSE IF defect = "noAction" THEN [message EXCEPT !.payload = Without(@, "action")]
    ELSE IF defect = "unknownAction" THEN [message EXCEPT !.payload.action = "shutdown"]
    ELSE IF defect = "badReplyTo" THEN message @@ [replyTo |-> NullText]
    ELSE message
\* the damaged HELLO and INTRODUCE messages
DamagedMessages(t) ==
    {Damaged(message, defect) :
        message \in {WireHello(SubjectId, PeerInfo(SubjectId, PublicKeyB64(1), Profile(<<"X">>)), t),
                     WireIntroduce(OtherId, PeerInfo(SubjectId, PublicKeyB64(1), Profile(<<"X">>)), t)},
        defect \in Defects}
WireMessages(t) ==
    BaseMessages(t)
    \cup {WireHello(SubjectId, PeerInfo(SubjectId, PublicKeyB64(1), Profile(<<"X">>)), t - 1)}
    \cup DamagedMessages(t)

\* handle throws: validate threw, or it returned valid: false
handleThrows(message, t) == validateThrows(message) \/ ~validate(message, t).valid

\* the handlers registered for the message's type, each called with it;
\* those registered through registerAction act on their action only
Dispatch(message) ==
    IF message.type = "text" THEN HandleTextCall(message.from)
    ELSE IF message.type = "system" /\ message.payload.action = "hello"
         THEN HandleHelloCall(HelloMessage(message.from, message.payload.peerInfo))
    ELSE IF message.type = "system" /\ message.payload.action = "introduce"
         THEN HandleIntroduceCall(HelloMessage(message.from, message.payload.peerInfo))
    ELSE IF message.type = "system" /\ message.payload.action = "ping"
         THEN HandlePingCall(message.from)
    ELSE /\ ownIdentity # NullObj
         /\ last' = Op("handle", NullText, FALSE, FALSE)
         /\ outbox' = {}
         /\ UNCHANGED <<ownIdentity, knownPeers, storage, now, connections, rooms, asyncVars>>

\* MessageHandler.handle(message)
HandleCall(message) ==
    IF handleThrows(message, now)
    THEN /\ last' = Op("handle", NullText, FALSE, TRUE)
         /\ UNCHANGED <<ownIdentity, knownPeers, storage, now, netVars, asyncVars>>
    ELSE Dispatch(message)

Handle == \E message \in WireMessages(now) : HandleCall(message)

\* ------------------------------------------------------------------------
\* MessageHandler: register and the handler loop of handle
\* ------------------------------------------------------------------------
\* what a registered handler does when it is called: return a value, throw,
\* return a promise that rejects, return a promise that resolves later
HandlerKinds == {"returns", "throws", "rejects", "resolves"}
RegistryType == "text"

\* register(type, handler): the handler is appended to the type's list
RegisterCall(kind) ==
    /\ Len(handlers) < MaxHandlers
    /\ handlers' = Append(handlers, kind)
    /\ last' = Op("register", NullText, FALSE, FALSE)
    /\ UNCHANGED <<ownIdentity, knownPeers, storage, now, netVars, tasks, signaling>>
Register == \E kind \in HandlerKinds : RegisterCall(kind)

\* this.handlers.get(message.type) || []
HandlersFor(registry, type) == IF type = RegistryType THEN registry ELSE <<>>

\* how the promise made for a handler call settles
Settles(kind) == IF kind \in {"throws", "rejects"} THEN "rejected" ELSE "fulfilled"

\* variant: no try / catch around the call and Promise.all instead of
\* allSettled: the first handler that throws ends the loop, and handle
\* rejects when a handler failed
RunHandlers_Unprotected(hs) ==
    LET throwers == {i \in 1..Len(hs) : hs[i] = "throws"}
        n == IF throwers = {} THEN Len(hs) ELSE CHOOSE i \in throwers : \A j \in throwers : i <= j
    IN [calls |-> [i \in 1..n |-> i],
        settled |-> [i \in 1..n |-> Settles(hs[i])],
        threw |-> \E i \in 1..n : Settles(hs[i]) = "rejected"]

\* handlers.map(handler => { try { return Promise.resolve(handler(message)) }
\* catch (error) { return Promise.reject(error) } }), then
\* await Promise.allSettled(promises): the handlers called, in order, how
\* each promise settled, and whether handle rejects
RunHandlers(hs) ==
    [calls |-> [i \in 1..Len(hs) |-> i],
     settled |-> [i \in 1..Len(hs) |-> Settles(hs[i])],
     threw |-> FALSE]

\* the messages handled through the registry: a text message, a control
\* message (no handler is registered for its type) and a stale text message
RegistryMessages(t) ==
    {Wire("text", SubjectId, [text |-> <<"h", "i">>, format |-> "plain"], t),
     Wire("control", SubjectId, [action |-> "typing"], t),
     Damaged(Wire("text", SubjectId, [text |-> <<"h", "i">>, format |-> "plain"], t), "stale")}

\* MessageHandler.handle(message) with the registered handlers
HandleRegisteredCall(message) ==
    LET invalid == handleThrows(message, now)
        run == RunHandlers(HandlersFor(handlers, message.type))
    IN /\ last' = [op |-> "handleRegistered", id |-> NullText, existed |-> FALSE,
                   threw |-> invalid \/ run.threw,
                   type |-> message.type,
                   calls |-> IF invalid THEN <<>> ELSE run.calls,
                   settled |-> IF invalid THEN <<>> ELSE run.settled]
       /\ UNCHANGED <<ownIdentity, knownPeers, storage, now, netVars, asyncVars>>
HandleRegistered == \E message \in RegistryMessages(now) : HandleRegisteredCall(message)

\* ------------------------------------------------------------------------
\* MessageHandler.handle with the asynchronous handlers of
\* initMessageHandlers.  The caller's pending handle call is task 0: the
\* caller awaits it before it handles the next message.
\* ------------------------------------------------------------------------
HandleTask == 0

\* registerAction(type, action, handler): the registered wrapper calls
\* handler(message) and returns nothing, so the promise handle makes for the
\* wrapper waits for no handler run
registerAction(run) == {}

AsyncMessages(t) ==
    {WireHello(GuestInfo(k).id, GuestInfo(k), t) : k \in GuestKeys}
    \cup {WireIntroduce(GuestInfo(k).id, GuestInfo(j), t) : k, j \in GuestKeys}
    \cup {Wire("text", GuestInfo(k).id, [text |-> <<"h", "i">>, format |-> "plain"], t) :
              k \in GuestKeys}

\* handle(message) up to `await Promise.allSettled(promises)`: the message
\* is validated and every handler is called (an invalid message makes handle
\* reject before any handler is called: HandleCall)
HandleStartCall(message) ==
    LET spawns == message.type = "system"
        pending == Put(tasks, HandleTask,
                       [kind |-> "handle", pc |-> "allSettled", message |-> message,
                        started |-> IF spawns THEN {FreeTask} ELSE {},
                        awaits |-> IF spawns THEN registerAction(FreeTask) ELSE {}])
        inner == HelloMessage(message.from, message.payload.peerInfo)
    IN /\ ~Has(tasks, HandleTask)
       /\ ~handleThrows(message, now)
       /\ IF message.type = "system" /\ message.payload.action = "hello"
          THEN HelloBegins(inner, pending, "handle")
          ELSE IF message.type = "system" /\ message.payload.action = "introduce"
          THEN IntroduceBegins(inner, pending, "handle")
          ELSE /\ ownIdentity # NullObj
               /\ tasks' = pending
               /\ outbox' = {}
               /\ last' = Op("handle", NullText, FALSE, FALSE)
               /\ UNCHANGED <<ownIdentity, knownPeers, storage, now, connections, rooms,
                              handlers, signaling>>
HandleStart == \E message \in AsyncMessages(now) : HandleStartCall(message)

\* `await Promise.allSettled(promises)` returns and handle resolves
HandleResolve ==
    /\ Has(tasks, HandleTask)
    /\ tasks[HandleTask].awaits \cap DOMAIN tasks = {}
    /\ tasks' = Remove(tasks, HandleTask)
    /\ last' = Op("handleResolved", tasks[HandleTask].message.from, FALSE, FALSE)
    /\ UNCHANGED <<ownIdentity, knownPeers, storage, now, netVars, handlers, signaling>>

\* ------------------------------------------------------------------------
\* ui.js: addressing a contact by its fingerprint
\* ------------------------------------------------------------------------
LowerChar(c) ==
    IF \E i \in 1..16 : UpperHexDigits[i] = c
    THEN HexDigits[CHOOSE i \in 1..16 : UpperHexDigits[i] = c]
    ELSE c
toLowerCase(s) == [i \in 1..Len(s) |-> LowerChar(s[i])]

RECURSIVE trim(_)
\* String.prototype.trim for texts padded with spaces
trim(s) ==
    IF s = <<>> THEN s
    ELSE IF Head(s) = " " THEN trim(Tail(s))
    ELSE IF s[Len(s)] = " " THEN trim(SubSeq(s, 1, Len(s) - 1))
    ELSE s

\* /^peer-[0-9a-fA-F]+$/i
MatchesPeerId(s) ==
    /\ Len(s) > 5
    /\ toLowerCase(SubSeq(s, 1, 4)) = <<"p", "e", "e", "r">>
    /\ s[5] = "-"
    /\ \A i \in 6..Len(s) : IsHexDigit(s[i])

\* !fp || typeof fp !== 'string'
NoText(fp) == fp = NullText \/ fp = UndefText \/ fp = <<>>

\* variant: the first 8 characters are taken without removing the colons
parseFingerprintToPeerId_KeepsColons(fp) ==
    IF NoText(fp) THEN NullText
    ELSE IF MatchesPeerId(trim(fp)) THEN trim(fp)
    ELSE LET cleaned == toLowerCase(fp)
         IN IF Len(cleaned) < 8 THEN NullText
            ELSE <<"p", "e", "e", "r", "-">> \o SubSeq(cleaned, 1, 8)

\* parseFingerprintToPeerId(fp); every text of the model is a string
parseFingerprintToPeerId(fp) ==
    IF NoText(fp) THEN NullText
    ELSE IF MatchesPeerId(trim(fp)) THEN trim(fp)
    ELSE LET cleaned == toLowerCase(SelectSeq(fp, IsHexDigit))
         IN IF Len(cleaned) < 8 THEN NullText
            ELSE <<"p", "e", "e", "r", "-">> \o SubSeq(cleaned, 1, 8)

\* what a user may paste: the fingerprint of a generated identity, whole or
\* cut short, in either case; its full fingerprint; its peer id, padded or
\* not; nothing
PastedTexts ==
    LET cuts == {SubSeq(FingerprintOf[k], 1, n) : k \in Keys, n \in 0..Len(FingerprintOf[1])}
    IN cuts \cup {toUpperCase(c) : c \in cuts}
            \cup {formatFingerprint(sha256(k), FALSE) : k \in Keys}
            \cup {PeerIdOf[k] : k \in Keys}
            \cup {<<" ">> \o toUpperCase(PeerIdOf[k]) \o <<" ">> : k \in Keys}
            \cup {NullText}

ParseFingerprintCall(fp) ==
    /\ last' = [op |-> "parseFingerprintToPeerId", id |-> parseFingerprintToPeerId(fp),
                existed |-> FALSE, threw |-> FALSE, fp |-> fp]
    /\ UNCHANGED <<ownIdentity, knownPeers, storage, now, netVars, asyncVars>>
ParseFingerprint == \E fp \in PastedTexts : ParseFingerprintCall(fp)

\* ------------------------------------------------------------------------
\* PeerJSSignaling: presence tracking and signaling connections.  Each
\* action is one call or one event callback; the known peers that
\* onGetKnownPeers returns are PeerIds, and a target's PeerJS id stands for
\* the target.
\* ------------------------------------------------------------------------
SignalingStep(next, name, id, threw) ==
    /\ signaling' = next
    /\ last' = Op(name, id, FALSE, threw)
    /\ UNCHANGED <<ownIdentity, knownPeers, storage, now, netVars, handlers, tasks>>

\* checkPeerPresence up to its await: pingPeer for every known peer.  A peer
\* with a signaling connection is recorded at once; for the others a ping
\* connection is created, or connect throws on a missing peer object and
\* the peer is removed from the map
checkPeerPresence(s) ==
    IF s.peer
    THEN [s EXCEPT !.presenceMap = @ \cup (PeerIds \cap s.connections),
                   !.pings = @ \cup (PeerIds \ s.connections)]
    ELSE [s EXCEPT !.presenceMap = (@ \cup (PeerIds \cap s.connections))
                                      \ (PeerIds \ s.connections)]

\* stopPresenceTracking()
stopPresenceTracking(s) ==
    [s EXCEPT !.tracking = FALSE, !.presenceMap = {}, !.stopped = TRUE]

\* startPresenceTracking() (presence is enabled by default)
startPresenceTracking(s) ==
    IF s.tracking THEN s
    ELSE [checkPeerPresence(s) EXCEPT !.tracking = TRUE, !.stopped = FALSE]

\* connect(peerId) and the 'open' event of the new peer
SignalingConnect ==
    /\ ~signaling.peer
    /\ SignalingStep(startPresenceTracking([signaling EXCEPT !.peer = TRUE]),
                     "connect", NullText, FALSE)

StartPresenceTracking ==
    SignalingStep(startPresenceTracking(signaling), "startPresenceTracking", NullText, FALSE)

\* the interval set by startPresenceTracking fires
PresenceTimer ==
    /\ signaling.tracking
    /\ SignalingStep(checkPeerPresence(signaling), "checkPeerPresence", NullText, FALSE)

\* pingConn.on('open')
PingOpens ==
    \E p \in signaling.pings :
        SignalingStep([signaling EXCEPT !.presenceMap = @ \cup {p}, !.pings = @ \ {p}],
                      "pingOpen", p, FALSE)

\* pingConn.on('error'), or the 5 second timeout
PingFails ==
    \E p \in signaling.pings :
        SignalingStep([signaling EXCEPT !.presenceMap = @ \ {p}, !.pings = @ \ {p}],
                      "pingError", p, FALSE)

StopPresenceTracking ==
    SignalingStep(stopPresenceTracking(signaling), "stopPresenceTracking", NullText, FALSE)

\* disconnect(): peer.destroy() closes every connection of the peer
disconnect(s) ==
    IF s.peer
    THEN [stopPresenceTracking(s) EXCEPT !.peer = FALSE, !.connections = {}, !.pings = {},
                                         !.opening = [p \in PeerIds |-> 0],
                                         !.live = [p \in PeerIds |-> 0]]
    ELSE [stopPresenceTracking(s) EXCEPT !.connections = {}]
Disconnect == SignalingStep(disconnect(signaling), "disconnect", NullText, FALSE)

\* getOnlinePeers() and isPeerOnline(peerId)
getOnlinePeers(s) == s.presenceMap
isPeerOnline(s, peerId) == peerId \in s.presenceMap

\* sendToPeer(target, data) up to its await: an entry of this.connections is
\* used, or else a connection is created
sendToPeer(s, target) ==
    IF target \in s.connections THEN s
    ELSE [s EXCEPT !.opening[target] = @ + 1, !.live[target] = @ + 1]

SendToPeerCall(target) ==
    IF target \notin signaling.connections /\ ~signaling.peer
    THEN SignalingStep(signaling, "sendToPeer", target, TRUE)
    ELSE /\ signaling.live[target] < MaxTasks
         /\ SignalingStep(sendToPeer(signaling, target), "sendToPeer", target, FALSE)
SendToPeer == \E target \in PeerIds : SendToPeerCall(target)

\* conn.on('open'): the connection is entered in this.connections, and the
\* waiting sendToPeer sends on it
SendOpens ==
    \E target \in PeerIds :
        /\ signaling.opening[target] > 0
        /\ SignalingStep([signaling EXCEPT !.connections = @ \cup {target},
                                           !.opening[target] = @ - 1],
                         "sendOpen", target, FALSE)

\* conn.on('error'), or the 10 second timeout: the waiting sendToPeer rejects
SendFails ==
    \E target \in PeerIds :
        /\ signaling.opening[target] > 0
        /\ SignalingStep([signaling EXCEPT !.opening[target] = @ - 1, !.live[target] = @ - 1],
                         "sendError", target, TRUE)

\* conn.on('close') of an open connection
SendCloses ==
    \E target \in PeerIds :
        /\ signaling.live[target] > signaling.opening[target]
        /\ SignalingStep([signaling EXCEPT !.connections = @ \ {target},
                                           !.live[target] = @ - 1],
                         "sendClose", target, FALSE)

\* ------------------------------------------------------------------------
\* Signing and verifying
\* ------------------------------------------------------------------------
SignPayloads ==
    {TextData(<<"a">>), TextData(<<"b">>), TextData(<<"a", "b">>), BufferData(<<97>>)}

\* a signature text as it reaches verify: as signed, with one character
\* replaced by the next one of the alphabet, or with a character btoa never
\* produces
NextChar(c) == Base64Chars[((Base64Index(c) + 1) % 64) + 1]
Tamperings == {"none", "first", "last", "invalid"}
Received(signatureB64, tampering) ==
    LET n == Len(StripPadding(signatureB64))
    IN IF tampering = "first" THEN [signatureB64 EXCEPT ![1] = NextChar(@)]
       ELSE IF tampering = "last" THEN [signatureB64 EXCEPT ![n] = NextChar(@)]
       ELSE IF tampering = "invalid" THEN [signatureB64 EXCEPT ![1] = "*"]
       ELSE signatureB64

SignedMessage(from, data, signature) ==
    [action |-> "signed", from |-> from, data |-> data, signature |-> signature]

\* ownIdentity.sign(data); the signed data is sent
SignCall(data) ==
    /\ ownIdentity # NullObj
    /\ outbox' = IF signThrows(ownIdentity) THEN {}
                 ELSE {SignedMessage(ownIdentity.id, data, sign(ownIdentity, data))}
    /\ last' = Op("sign", ownIdentity.id, FALSE, signThrows(ownIdentity))
    /\ UNCHANGED <<ownIdentity, knownPeers, storage, now, connections, rooms, asyncVars>>

Sign == \E data \in SignPayloads : SignCall(data)

\* the identity of key pair k as a peer holds it: built from the public
\* information, so without the private key
RemoteIdentity(k) == [PeerIdentityGenerate(k, <<"X">>, 1) EXCEPT !.privateKey = NullText]

\* identity.verify(data, signature) for a signed message that was received
VerifyCall(identity, data, signatureB64) ==
    LET threw == verifyThrows(identity, data, signatureB64)
    IN /\ last' = [op |-> "verify", id |-> identity.id, existed |-> FALSE, threw |-> threw,
                   data |-> data, signature |-> signatureB64,
                   result |-> ~threw /\ verify(identity, data, signatureB64)]
       /\ UNCHANGED <<ownIdentity, knownPeers, storage, now, netVars, asyncVars>>

Verify ==
    \E k \in Keys, m \in outbox, data \in SignPayloads, tampering \in Tamperings :
        /\ m.action = "signed"
        /\ VerifyCall(RemoteIdentity(k), data, Received(m.signature, tampering))

\* ------------------------------------------------------------------------
\* Specifications
\* ------------------------------------------------------------------------
\* the trust operations of one IdentityManager in one session
NextTrust ==
    \/ Tick
    \/ Initialize
    \/ AddPeer
    \/ SetTrust

SpecTrust == Init /\ [][NextTrust]_vars

\* one session on the network: local trust decisions about the subject peer
\* and received messages
LocalAddPeer == AddPeerFrom({PeerInfo(SubjectId, PublicKeyB64(2), Profile(<<"Y">>))}, {OtherId})
LocalSetTrust == SetTrustFrom({SubjectId}, {"marginal", "full"}, {"in-person"})

NextNet ==
    \/ Initialize
    \/ LocalAddPeer
    \/ LocalSetTrust
    \/ AddSignature
    \/ ConnectionOpen
    \/ HandleHello
    \/ HandleIntroduce

SpecNet == Init /\ [][NextNet]_vars

\* every operation of the IdentityManager, across sessions
StoreAddPeer == AddPeerFrom({PeerInfo(SubjectId, PublicKeyB64(1), Profile(<<"X">>))}, {NullText})
StoreSetTrust == SetTrustFrom({SubjectId}, {"unknown", "full"}, {"video"})

Next ==
    \/ Tick
    \/ NewManager
    \/ Initialize
    \/ StoreAddPeer
    \/ StoreSetTrust
    \/ UpdateProfile
    \/ ImportIdentity
    \/ ImportKnownPeers
    \/ Clear

Spec == Init /\ [][Next]_vars

\* persistence when localStorage may refuse a write and when the stored
\* peer collection may be damaged from outside the manager; generate()
\* yields any key pair
StorageInitialize ==
    \E k \in Keys, n \in InitNames, outcome \in SaveOutcomes : InitializeSaving(k, n, outcome)
StorageAddPeer ==
    \E outcome \in SaveOutcomes :
        AddPeerSaving(PeerInfo(SubjectId, PublicKeyB64(1), Profile(<<"X">>)), NullText, outcome)
StorageSetTrust ==
    \E outcome \in SaveOutcomes : SetTrustSaving(SubjectId, "full", "video", outcome)
StorageProfileUpdates == {[name |-> <<"Y">>]}
StorageUpdateProfile ==
    \E updates \in StorageProfileUpdates, outcome \in SaveOutcomes :
        UpdateProfileSaving(updates, outcome)
StorageIdentityBundles == {Bundle(TRUE, "1.0", PeerIdentityGenerate(2, <<"Y">>, 1))}
StorageImportIdentity ==
    \E exportData \in StorageIdentityBundles, outcome \in SaveOutcomes :
        ImportIdentitySaving(exportData, outcome)
StoragePeerBundles ==
    {PeersBundle(TRUE, "1.0", TRUE, <<ExportedRecord(OtherId, 2, "marginal", "none", 1)>>)}
StorageImportKnownPeers ==
    \E exportData \in StoragePeerBundles, outcome \in SaveOutcomes :
        ImportKnownPeersSaving(exportData, outcome)
\* the stored peer collection is overwritten with text that is not JSON
CorruptPeers ==
    /\ storage.peers # CorruptItem
    /\ storage' = [storage EXCEPT !.peers = CorruptItem]
    /\ last' = Op("corruptPeers", NullText, FALSE, FALSE)
    /\ UNCHANGED <<ownIdentity, knownPeers, now, netVars, asyncVars>>

NextStorage ==
    \/ NewManager
    \/ StorageInitialize
    \/ StorageAddPeer
    \/ StorageSetTrust
    \/ StorageUpdateProfile
    \/ StorageImportIdentity
    \/ StorageImportKnownPeers
    \/ Clear
    \/ CorruptPeers

SpecStorage == Init /\ [][NextStorage]_vars

\* one manager receiving every kind of message; a HELLO may carry an
\* announcement with fields beyond those of getPublicInfo
LeakyPeerInfo ==
    [id |-> OtherId, publicKey |-> PublicKeyB64(2), fingerprint |-> FingerprintOf[2],
     keyId |-> KeyIdOf[2], profile |-> Profile(<<"X">>), privateKey |-> PrivateKeyB64(2)]
MessagesHello ==
    \E message \in HelloMessages \cup {HelloMessage(OtherId, LeakyPeerInfo)} :
        HandleHelloCall(message)

NextMessages ==
    \/ Initialize
    \/ ConnectionOpen
    \/ MessagesHello
    \/ HandleIntroduce
    \/ HandleGoodbye
    \/ HandleRoomAnnounce
    \/ HandlePing
    \/ HandleError
    \/ HandleText
    \/ Clear

SpecMessages == Init /\ [][NextMessages]_vars

\* trust decisions with arbitrary arguments: setTrust called with any level,
\* the trust controls of the page, and imports of peer lists written by
\* another program
AnyLevels == TRUST_LEVELS \cup {"admin"}
AnySetTrust == SetTrustFrom({SubjectId}, AnyLevels, {NULL, "code", "chain"})
ForeignBundles ==
    {PeersBundle(TRUE, "1.0", TRUE, <<ExportedRecord(SubjectId, 1, "admin", "none", 1)>>),
     PeersBundle(TRUE, "1.0", TRUE, <<ExportedRecord(OtherId, 2, "untrusted", "code", 1)>>)}
ForeignImport == \E exportData \in ForeignBundles : ImportKnownPeersCall(exportData)

NextLevels ==
    \/ Tick
    \/ Initialize
    \/ StoreAddPeer
    \/ AnySetTrust
    \/ TrustControls
    \/ ForeignImport
    \/ GetPeer

SpecLevels == Init /\ [][NextLevels]_vars

\* a page that receives messages through MessageHandler.handle
NextHandle ==
    \/ Initialize
    \/ ConnectionOpen
    \/ Handle

SpecHandle == Init /\ [][NextHandle]_vars

\* HELLO handler runs that overlap each other and the user's trust decisions
GuestIds == {GuestInfo(k).id : k \in GuestKeys}
ManualSetTrust == SetTrustFrom(GuestIds, {"marginal", "full"}, {"manual"})

NextHelloRace ==
    \/ Initialize
    \/ HelloStart
    \/ HelloResume
    \/ HelloFinish
    \/ ManualSetTrust

SpecHelloRace == Init /\ [][NextHelloRace]_vars

\* a caller that awaits handle for each message before it handles the next
NextHandleAsync ==
    \/ Initialize
    \/ HandleStart
    \/ HandleResolve
    \/ HelloResume
    \/ HelloFinish
    \/ IntroduceFinish

SpecHandleAsync == Init /\ [][NextHandleAsync]_vars

\* identities and the contact dialog that parses pasted fingerprints
NextContact ==
    \/ Initialize
    \/ ParseFingerprint

SpecContact == Init /\ [][NextContact]_vars

\* a signaling object that tracks presence and sends signals
NextSignaling ==
    \/ SignalingConnect
    \/ StartPresenceTracking
    \/ PresenceTimer
    \/ PingOpens
    \/ PingFails
    \/ StopPresenceTracking
    \/ Disconnect
    \/ SendToPeer
    \/ SendOpens
    \/ SendFails
    \/ SendCloses

SpecSignaling == Init /\ [][NextSignaling]_vars

\* a page that learns about a room from announcements
NextRooms ==
    \/ Tick
    \/ Initialize
    \/ AnnounceRoom

SpecRooms == Init /\ [][NextRooms]_vars

\* ROOM_ANNOUNCE handler runs that overlap
FirstInitialize == ownIdentity = NullObj /\ Initialize

NextRoomRace ==
    \/ FirstInitialize
    \/ RoomRead
    \/ RoomPut

SpecRoomRace == Init /\ [][NextRoomRace]_vars

\* a host and the guests that join it
NextRoom ==
    \/ Tick
    \/ Initialize
    \/ GuestConnects
    \/ GuestHello

SpecRoom == Init /\ [][NextRoom]_vars

\* a handler registry that grows, and messages handled through it
NextRegistry ==
    \/ Tick
    \/ Register
    \/ HandleRegistered

SpecRegistry == Init /\ [][NextRegistry]_vars

\* identities that sign, and peers that verify what they receive
NextSign ==
    \/ StorageInitialize
    \/ Sign
    \/ Verify

SpecSign == Init /\ [][NextSign]_vars

\* ------------------------------------------------------------------------
\* Properties
\* ------------------------------------------------------------------------
IsFull(peers, p) == Has(peers, p) /\ peers[p].trustLevel = "full"
TrustFields(rec) ==
    <<rec.trustLevel, rec.verified, rec.verifiedMethod, rec.introducedBy, rec.signatures>>

\* C1: addPeer for a peer id that already has a TrustRecord (any announced
\* info, any introducedBy) leaves the record's trustLevel, verified,
\* verifiedMethod, introducedBy and signatures as they were.
C1_AddPeerKeepsTrust ==
    \A peerInfo \in AllPeerInfos, introducedBy \in AllIntroducedByArgs :
        Has(knownPeers, peerInfo.id) =>
            LET after == AddPeerMap(ownIdentity, knownPeers, peerInfo, introducedBy, now)
            IN /\ ~AddPeerThrows(ownIdentity, knownPeers, peerInfo)
               /\ TrustFields(after[peerInfo.id]) = TrustFields(knownPeers[peerInfo.id])

\* a fully trusted, verified, introduced record has just been re-announced
C1_Witness ==
    /\ last.op = "addPeer" /\ last.existed
    /\ knownPeers[last.id].trustLevel = "full"
    /\ knownPeers[last.id].verified
    /\ knownPeers[last.id].introducedBy # NullText

\* C2: under addPeer, addSignature and handled HELLO / INTRODUCE messages a
\* record becomes 'full' only in a step that is a local
\* setTrust(peerId, 'full', ...) call.
C2_FullOnlyBySetTrust ==
    [][\A p \in PeerIds :
          (IsFull(knownPeers', p) /\ ~IsFull(knownPeers, p)) =>
              \E m \in VERIFICATION_METHODS \cup {NULL} : SetTrustCall(p, "full", m)]_vars

\* a fully trusted, endorsed peer has just re-announced itself by HELLO
C2_Witness ==
    /\ last.op = "hello" /\ last.existed
    /\ Len(knownPeers[last.id].signatures) > 0
    /\ knownPeers[last.id].trustLevel = "full"

\* C3: no handled HELLO or INTRODUCE message changes the trustLevel of a
\* record that existed when the message arrived.
NoPeerInfo == PeerInfo(NullText, UndefText, UndefObj)
C4_AddPeerCreatesUnknown ==
    ownIdentity # NullObj =>
        \A peerInfo \in AllPeerInfos, introducedBy \in AllIntroducedByArgs :
            ~Has(knownPeers, peerInfo.id) =>
                LET after == AddPeerMap(ownIdentity, knownPeers, peerInfo, introducedBy, now)
                    rec == after[peerInfo.id]
                IN /\ DOMAIN after = DOMAIN knownPeers \cup {peerInfo.id}
                   /\ \A q \in DOMAIN knownPeers : after[q] = knownPeers[q]
                   /\ rec.peerId = peerInfo.id
                   /\ rec.trustLevel = "unknown"
                   /\ rec.verified = FALSE
                   /\ rec.verifiedMethod = "none"
                   /\ rec.signatures = <<>>
                   /\ rec.trustedBy = ownIdentity.id
                   /\ rec.introducedBy = introducedBy

\* a record has just been created for an introduced peer
C4_Witness ==
    /\ last.op = "addPeer" /\ ~last.existed /\ ~last.threw
    /\ Has(knownPeers, last.id)
    /\ knownPeers[last.id].introducedBy = OtherId
    /\ knownPeers[last.id].trustedBy = ownIdentity.id

\* C5: addPeer for a known peer id with a public key other than the cached
\* one raises an error and leaves the existing record as it was.
KeyCollision(peers, peerInfo) ==
    /\ Has(peers, peerInfo.id)
    /\ OrText(peerInfo.publicKey, NullText) # NullText
    /\ OrText(peers[peerInfo.id].publicKey, NullText) # NullText
    /\ peerInfo.publicKey # peers[peerInfo.id].publicKey
C5_CollisionSurfaced ==
    [][\A peerInfo \in PeerInfos, introducedBy \in IntroducedByArgs :
          (AddPeerCall(peerInfo, introducedBy) /\ KeyCollision(knownPeers, peerInfo)) =>
              (last'.threw /\ knownPeers'[peerInfo.id] = knownPeers[peerInfo.id])]_vars

\* C6: every TrustRecord's fingerprint and keyId are the values derived
\* from its cached publicKey.
C6_FingerprintMatchesKey ==
    \A p \in DOMAIN knownPeers :
        /\ knownPeers[p].fingerprint = DerivedFingerprint(knownPeers[p].publicKey)
        /\ knownPeers[p].keyId = DerivedKeyId(knownPeers[p].publicKey)

\* C7: setTrust on a known peer sets trustLevel and trustedAt; with a method
\* it sets verified, verifiedMethod and verifiedAt, without one it keeps
\* them; publicKey, profile, introducedBy and signatures are unchanged.
C7_SetTrustEffect ==
    \A p \in DOMAIN knownPeers, level \in TRUST_LEVELS,
       m \in VERIFICATION_METHODS \cup {"manual", NULL} :
        LET before == knownPeers[p]
            after == SetTrustMap(knownPeers, p, level, m, now)[p]
        IN /\ after.trustLevel = level
           /\ after.trustedAt = now
           /\ m # NULL => /\ after.verified = TRUE
                           /\ after.verifiedMethod = m
                           /\ after.verifiedAt = now
           /\ m = NULL => /\ after.verified = before.verified
                           /\ after.verifiedMethod = before.verifiedMethod
                           /\ after.verifiedAt = before.verifiedAt
           /\ after.publicKey = before.publicKey
           /\ after.profile = before.profile
           /\ after.introducedBy = before.introducedBy
           /\ after.signatures = before.signatures

\* a verified record whose trust was changed later without a method
C7_Witness ==
    /\ last.op = "setTrust" /\ last.existed
    /\ knownPeers[last.id].verified
    /\ knownPeers[last.id].verifiedMethod = "video"
    /\ knownPeers[last.id].verifiedAt < knownPeers[last.id].trustedAt

BecomesFull(p) == IsFull(knownPeers', p) /\ ~IsFull(knownPeers, p)
\* C8 as stated: no call of initialize, addPeer, updateProfile,
\* importIdentity or importKnownPeers makes a record 'full' that was not
\* 'full' in memory before the call.
C8_OnlySetTrustMakesFull ==
    [][last'.op \in {"initialize", "addPeer", "updateProfile", "importIdentity",
                     "importKnownPeers"}
          => \A p \in PeerIds : ~BecomesFull(p)]_vars

\* C8 amended: addPeer, updateProfile and importIdentity never make a record
\* 'full'; a record becomes 'full' only by setTrust(peerId, 'full', ...), by
\* an initialize that loads it as 'full' from the persisted peer collection,
\* or by an importKnownPeers whose bundle holds it as 'full'.
LoadsFull(p) ==
    /\ last'.op = "initialize"
    /\ storage.peers # <<>>
    /\ IsFull(storage.peers[1], p)
ImportsFull(p) ==
    \E exportData \in PeerBundles :
        /\ ImportKnownPeersCall(exportData)
        /\ \E i \in 1..Len(exportData.payload) :
              /\ exportData.payload[i] # NullObj
              /\ exportData.payload[i].peerId = p
              /\ exportData.payload[i].trustLevel = "full"
C8_FullOnlyBySetTrustLoadOrImport ==
    [][\A p \in PeerIds :
          BecomesFull(p) =>
              \/ \E m \in VERIFICATION_METHODS \cup {"manual", NULL} : SetTrustCall(p, "full", m)
              \/ LoadsFull(p)
              \/ ImportsFull(p)]_vars

\* an import has just stored a 'full' record for a peer never trusted here
C8_Witness ==
    /\ last.op = "importKnownPeers" /\ ~last.threw
    /\ IsFull(knownPeers, SubjectId)
    /\ knownPeers[SubjectId].verifiedMethod = "in-person"

\* C9: after addPeer(id, K, X), setTrust(id, 'full', 'video') and
\* addPeer(id, K, Y) the record's profile is Y, its key K and its
\* trustLevel 'full'.
C9_ReannounceRefreshesProfile ==
    ownIdentity # NullObj =>
        \A id \in PeerIds, pub \in PublicKeys, X \in Profiles, Y \in Profiles,
           t2 \in now..MaxTime :
            LET s1 == AddPeerMap(ownIdentity, knownPeers, PeerInfo(id, pub, X), NullText, now)
                s2 == SetTrustMap(s1, id, "full", "video", now)
                s3 == AddPeerMap(ownIdentity, s2, PeerInfo(id, pub, Y), NullText, t2)
            IN /\ s3[id].profile = Y
               /\ s3[id].publicKey = pub
               /\ s3[id].trustLevel = "full"
               /\ s3[id].verifiedMethod = "video"

\* a record verified by video at 'full' has just been re-announced as Y
C9_Witness ==
    /\ last.op = "addPeer" /\ last.existed
    /\ knownPeers[last.id].trustLevel = "full"
    /\ knownPeers[last.id].verifiedMethod = "video"
    /\ knownPeers[last.id].profile = Profile(<<"Y">>)
    /\ knownPeers[last.id].trustedAt < now

\* C10: calling addPeer twice with identical arguments leaves the known
\* peers, every field of every record included, as calling it once.
C10_AddPeerIdempotent ==
    \A peerInfo \in AllPeerInfos, introducedBy \in AllIntroducedByArgs, t2 \in now..MaxTime :
        LET once == AddPeerMap(ownIdentity, knownPeers, peerInfo, introducedBy, now)
            twice == AddPeerMap(ownIdentity, once, peerInfo, introducedBy, t2)
        IN /\ twice = once
           /\ Save(ownIdentity, twice, Save(ownIdentity, once, storage))
                 = Save(ownIdentity, once, storage)

\* a record created earlier has just been announced again at a later time
C10_Witness ==
    /\ last.op = "addPeer" /\ last.existed
    /\ knownPeers[last.id].trustLevel = "unknown"
    /\ knownPeers[last.id].trustedAt < now

C15_ImportIdentityRejects ==
    [][\A exportData \in IdentityBundles :
          (ImportIdentityCall(exportData)
              /\ (~exportData.marker \/ exportData.version # "1.0")) =>
                  /\ last'.threw
                  /\ UNCHANGED <<ownIdentity, knownPeers, storage>>]_vars

\* an import has just been refused by a manager that holds an identity and
\* a TrustRecord, both persisted
C15_Witness ==
    /\ last.op = "importIdentity" /\ last.threw
    /\ ownIdentity # NullObj
    /\ Has(knownPeers, SubjectId)
    /\ storage.identity = <<ownIdentity>>

\* C16: importKnownPeers rejects, with an error and without changing any
\* TrustRecord, a bundle that lacks the 'lp2p-peers-export' marker and also
\* a bundle whose version is not '1.0'.
C16_ImportPeersRejects ==
    [][\A exportData \in PeerBundles :
          (ImportKnownPeersCall(exportData)
              /\ (~exportData.marker \/ exportData.version # "1.0")) =>
                  /\ last'.threw
                  /\ UNCHANGED knownPeers]_vars

\* C17: when an entry of the bundle's peers list is malformed, or the list
\* is missing, importKnownPeers fails and none of the bundle's entries has
\* been applied to the in-memory records or to storage.
C17_ImportPeersAllOrNothing ==
    [][\A exportData \in PeerBundles :
          (ImportKnownPeersCall(exportData)
              /\ (~exportData.listed \/ HasNullEntry(exportData.payload))) =>
                  /\ last'.threw
                  /\ UNCHANGED <<knownPeers, storage>>]_vars

\* C18: when importKnownPeers imports a record for a peer id that already
\* has a TrustRecord touched later than the imported one, the existing record
\* is kept; records for peer ids not in the bundle are unchanged.
InBundle(exportData, p) ==
    \E i \in 1..Len(exportData.payload) :
        exportData.payload[i] # NullObj /\ exportData.payload[i].peerId = p
EntryFor(exportData, p) ==
    exportData.payload[CHOOSE i \in 1..Len(exportData.payload) :
                           exportData.payload[i] # NullObj /\ exportData.payload[i].peerId = p]
C18_ImportKeepsNewer ==
    [][\A exportData \in PeerBundles :
          (ImportKnownPeersCall(exportData) /\ ~last'.threw) =>
              \A p \in DOMAIN knownPeers :
                  /\ ~InBundle(exportData, p) => knownPeers'[p] = knownPeers[p]
                  /\ (InBundle(exportData, p)
                        /\ knownPeers[p].trustedAt > EntryFor(exportData, p).trustedAt)
                      => knownPeers'[p] = knownPeers[p]]_vars

SameIdentity(a, b) ==
    a.id = b.id /\ a.publicKey = b.publicKey /\ a.privateKey = b.privateKey

\* C12: once an own identity is persisted, every initialize yields that
\* identity (same id and key pair) and leaves it persisted, whatever the
\* state of the stored peer collection.
C12_PersistedIdentityKept ==
    [][(last'.op = "initialize" /\ storage.identity # <<>>) =>
          /\ SameIdentity(ownIdentity', storage.identity[1])
          /\ storage'.identity # <<>>
          /\ SameIdentity(storage'.identity[1], storage.identity[1])]_vars

\* C13: initialize on a manager that holds an identity returns the same
\* identity and leaves the in-memory TrustRecords unchanged, also when an
\* earlier save failed.
C13_InitializeIdempotent ==
    [][(last'.op = "initialize" /\ ownIdentity # NullObj) =>
          /\ SameIdentity(ownIdentity', ownIdentity)
          /\ knownPeers' = knownPeers]_vars

\* C14: when the storage write fails during addPeer, setTrust,
\* updateProfile, importIdentity or importKnownPeers, the call raises no
\* error and the in-memory change it made is kept.
C14_FailedSaveKeepsMemory ==
    [][\A outcome \in FailedOutcomes :
          /\ \A peerInfo \in PeerInfos :
                (AddPeerSaving(peerInfo, NullText, outcome) /\ ownIdentity # NullObj) =>
                    /\ ~last'.threw
                    /\ knownPeers' = AddPeerMap(ownIdentity, knownPeers, peerInfo, NullText, now)
          /\ \A level \in LevelArgs, m \in VERIFICATION_METHODS :
                SetTrustSaving(SubjectId, level, m, outcome) =>
                    /\ ~last'.threw
                    /\ knownPeers' = SetTrustMap(knownPeers, SubjectId, level, m, now)
          /\ \A updates \in StorageProfileUpdates :
                (UpdateProfileSaving(updates, outcome) /\ ownIdentity # NullObj) =>
                    /\ ~last'.threw
                    /\ ownIdentity' = IdentityUpdateProfile(ownIdentity, updates)
          /\ \A exportData \in StorageIdentityBundles :
                ImportIdentitySaving(exportData, outcome) =>
                    /\ ~last'.threw
                    /\ ownIdentity' = PeerIdentityNew(exportData.payload, now)
          /\ \A exportData \in StoragePeerBundles :
                ImportKnownPeersSaving(exportData, outcome) =>
                    /\ ~last'.threw
                    /\ knownPeers' = ImportKnownPeersMap(knownPeers, exportData, now)]_vars

\* setTrust has just made a record 'full' in memory while the write of the
\* peer collection was refused
C14_Witness ==
    /\ last.op = "setTrust" /\ last.existed /\ ~last.threw
    /\ IsFull(knownPeers, SubjectId)
    /\ Parses(storage.peers)
    /\ ~IsFull(storage.peers[1], SubjectId)

MessageOps == {"hello", "introduce", "goodbye", "roomAnnounce", "ping", "error", "text"}

PrivateKeys == {PrivateKeyB64(k) : k \in Keys}
CarriesPrivateKey(info) ==
    \/ "privateKey" \in DOMAIN info
    \/ info.publicKey \in PrivateKeys
    \/ info.fingerprint \in PrivateKeys
    \/ info.keyId \in PrivateKeys
C20_NoPrivateKeyLeaves ==
    /\ \A p \in DOMAIN knownPeers : ~CarriesPrivateKey(knownPeers[p])
    /\ ownIdentity # NullObj => ~CarriesPrivateKey(getPublicInfo(ownIdentity))
    /\ \A m \in outbox : m.action = "introduce" => ~CarriesPrivateKey(m.peerInfo)

\* C21: verify(payload, s) on an identity returns true exactly when s was
\* produced by sign(payload) with the private key matching the identity's
\* public key: the round trip verifies, and a signature over other data,
\* by another key pair, or changed in one character does not.
SignerOf(id) == PeerIdentityGenerate(CHOOSE k \in Keys : PeerIdOf[k] = id, <<"X">>, 1)
C21_VerifyExactlySigned ==
    last.op = "verify" =>
        (last.result <=>
            \E signed \in SignPayloads :
                /\ DataBytes(signed) = DataBytes(last.data)
                /\ last.signature = sign(SignerOf(last.id), signed))

\* C22: the fingerprint stored in an identity produced by
\* PeerIdentity.generate is the full-length rendering of the public-key
\* hash: all 32 byte groups, lowercase hex, colon separated, not the
\* 8-group short form.
FullFingerprint(pub) == formatFingerprint(sha256(KeyOf(pub)), FALSE)
C22_GeneratedFingerprintIsFull ==
    ownIdentity # NullObj =>
        /\ ownIdentity.fingerprint = FullFingerprint(ownIdentity.publicKey)
        /\ Len(ownIdentity.fingerprint) = 3 * HashLen - 1

\* C23: in every reachable state every TrustRecord's trustedBy is the id of
\* the local own identity that assigned its current trust level, also after
\* setTrust, importIdentity and importKnownPeers.
AssignsLevel(p) ==
    \/ last'.op = "setTrust" /\ last'.id = p /\ last'.existed
    \/ last'.op = "addPeer" /\ last'.id = p /\ ~last'.existed /\ Has(knownPeers', p)
    \/ /\ last'.op = "importKnownPeers"
       /\ Has(knownPeers', p)
       /\ (Has(knownPeers, p) => knownPeers'[p] # knownPeers[p])
SetTrustRecordsAssigner ==
    [][\A p \in PeerIds :
          last'.op = "setTrust" /\ last'.id = p /\ last'.existed /\ ownIdentity # NullObj
              => knownPeers'[p].trustedBy = ownIdentity.id]_vars
C23_TrustedByIsOwnIdentity ==
    [][\A p \in PeerIds :
          AssignsLevel(p) /\ ownIdentity # NullObj
              => knownPeers'[p].trustedBy = ownIdentity.id]_vars

\* C25: in every reachable state every TrustRecord's trustLevel is one of
\* unknown, untrusted, marginal, full, whatever level is passed to setTrust
\* or arrives through importKnownPeers.
C25_TrustLevelInRange ==
    \A p \in DOMAIN knownPeers : knownPeers[p].trustLevel \in TRUST_LEVELS

\* C26: in every reachable state every TrustRecord's verifiedMethod is one
\* of none, code, video, in-person, chain, also after the trust changes made
\* through the page's updateTrustLevel and saveTrustLevel.
C26_VerifiedMethodInRange ==
    \A p \in DOMAIN knownPeers : knownPeers[p].verifiedMethod \in VERIFICATION_METHODS

\* C24: a TrustRecord created because of an INTRODUCE message has
\* introducedBy equal to the peer id of the introducer (the sender of the
\* INTRODUCE); a TrustRecord created because of a direct HELLO has
\* introducedBy null.
Created(p) == ~Has(knownPeers, p) /\ Has(knownPeers', p)
HelloCreatesDirect ==
    [][\A message \in HelloMessages :
          HandleHelloCall(message) /\ Created(message.peerInfo.id)
              => knownPeers'[message.peerInfo.id].introducedBy = NullText]_vars
C24_IntroducedByIsIntroducer ==
    [][/\ \A message \in IntroduceMessages :
             HandleIntroduceCall(message) /\ Created(message.peerInfo.id)
                 => knownPeers'[message.peerInfo.id].introducedBy = message.from
       /\ \A message \in HelloMessages :
             HandleHelloCall(message) /\ Created(message.peerInfo.id)
                 => knownPeers'[message.peerInfo.id].introducedBy = NullText]_vars

\* C27: updateProfile(patch) changes only the profile keys named in the
\* patch: every other profile key keeps its value, and the identity's id,
\* publicKey, privateKey, fingerprint, keyId and created, as well as all
\* TrustRecords, are unchanged.
C27_UpdateProfileFrame ==
    [][\A updates \in ProfileUpdates :
          UpdateProfileCall(updates) /\ ownIdentity # NullObj =>
              /\ DOMAIN ownIdentity'.profile = DOMAIN ownIdentity.profile \cup DOMAIN updates
              /\ \A f \in DOMAIN updates : ownIdentity'.profile[f] = updates[f]
              /\ \A f \in DOMAIN ownIdentity.profile \ DOMAIN updates :
                     ownIdentity'.profile[f] = ownIdentity.profile[f]
              /\ ownIdentity'.id = ownIdentity.id
              /\ ownIdentity'.publicKey = ownIdentity.publicKey
              /\ ownIdentity'.privateKey = ownIdentity.privateKey
              /\ ownIdentity'.fingerprint = ownIdentity.fingerprint
              /\ ownIdentity'.keyId = ownIdentity.keyId
              /\ ownIdentity'.created = ownIdentity.created
              /\ knownPeers' = knownPeers]_vars
C27_Witness ==
    /\ last.op = "updateProfile"
    /\ ownIdentity # NullObj
    /\ ownIdentity.profile.email = <<"y@example">>
    /\ ownIdentity.profile.name = <<"X">>
    /\ DOMAIN knownPeers # {}

\* C28: setTrust and getPeer for a peer id that has no TrustRecord raise no
\* error, create no record and leave the in-memory store and the persisted
\* storage unchanged; getPeer reports the peer as absent.
C28_UnknownPeerIsNoOp ==
    [][\A peerId \in PeerIds :
          ~Has(knownPeers, peerId) =>
              /\ \A level \in AnyLevels, verifiedMethod \in VerifiedMethodArgs \cup {"manual"} :
                     SetTrustCall(peerId, level, verifiedMethod) =>
                         /\ ~last'.threw
                         /\ knownPeers' = knownPeers
                         /\ ownIdentity' = ownIdentity
                         /\ storage' = storage
              /\ GetPeerCall(peerId) =>
                     /\ ~last'.threw
                     /\ ~last'.found
                     /\ getPeer(knownPeers, peerId) = UndefObj
                     /\ knownPeers' = knownPeers
                     /\ ownIdentity' = ownIdentity
                     /\ storage' = storage]_vars
C28_Witness ==
    /\ last.op \in {"setTrust", "getPeer"}
    /\ last.id = OtherId
    /\ ~last.existed
    /\ ~Has(knownPeers, OtherId)
    /\ Has(knownPeers, SubjectId)
    /\ Len(storage.peers) = 1

\* C29: whenever a mutating operation (initialize, addPeer, setTrust,
\* updateProfile, importIdentity, importKnownPeers) completes with working
\* storage, the persisted identity and peer collection equal the in-memory
\* state: a new IdentityManager that initializes from that storage obtains
\* the same own identity and TrustRecords equal in every field.
MutatingOps ==
    {"initialize", "addPeer", "setTrust", "updateProfile", "importIdentity", "importKnownPeers"}
\* what a new manager holds after its initialize found the persisted state
Reloaded(store, t) == Load(NullObj, EmptyMap, store, t)
Rejected ==
    /\ last'.op = "handle"
    /\ last'.threw
    /\ UNCHANGED <<ownIdentity, knownPeers, storage, now, netVars, asyncVars>>
C30_InvalidNeverHandled ==
    [][Rejected \/ \A message \in DamagedMessages(now) : ~HandleCall(message)]_vars
C30_Witness ==
    /\ last.op = "handle"
    /\ last.threw
    /\ ownIdentity # NullObj
    /\ DOMAIN connections # {}
    /\ ~Has(knownPeers, SubjectId)
    /\ Has(knownPeers, OtherId)

\* C31: for a valid message, handle invokes every handler registered for the
\* message's type, each exactly once and in registration order, and a
\* handler that throws or rejects neither prevents the remaining handlers
\* from running nor makes handle reject.
C31_EveryHandlerRuns ==
    [][\A message \in RegistryMessages(now) :
          HandleRegisteredCall(message) /\ ~handleThrows(message, now) =>
              LET n == Len(HandlersFor(handlers, message.type))
              IN /\ last'.calls = [i \in 1..n |-> i]
                 /\ Len(last'.settled) = n
                 /\ ~last'.threw]_vars
C31_Witness ==
    /\ last.op = "handleRegistered"
    /\ last.type = RegistryType
    /\ Len(handlers) = 3
    /\ handlers[1] = "throws"
    /\ handlers[2] = "rejects"
    /\ last.calls = <<1, 2, 3>>
    /\ last.settled = <<"rejected", "rejected", "fulfilled">>
    /\ ~last.threw

\* C32: when the host handles a HELLO carrying a public key from newcomer N
\* while more than one connection exists, it sends an INTRODUCE about N to
\* every other identified peer with an open data channel, sends N one
\* INTRODUCE for each other known TrustRecord, and never sends a peer an
\* INTRODUCE describing that same peer.
IntroducedToOthers(message) ==
    \A c \in DOMAIN connections' :
        (/\ connections'[c].peerId # NullText
         /\ connections'[c].peerId # message.from
         /\ connections'[c].open)
        => Introduce(c, ownIdentity.id, connections'[c].peerId, message.peerInfo) \in outbox'
IntroducedToNewcomer(message) ==
    \A p \in DOMAIN knownPeers' \ {message.from} :
        Cardinality({m \in outbox' : /\ connections'[m.cid].remote = message.from
                                      /\ m.peerInfo = buildPeerInfo(knownPeers'[p])}) = 1
NoSelfIntroduction ==
    \A m \in outbox' : m.peerInfo.id # connections'[m.cid].remote
HostHandlesHello(message) ==
    /\ GuestHello
    /\ HandleHelloCall(message)
    /\ Cardinality(DOMAIN connections) > 1
C32_HelloIntroduces ==
    [][\A message \in GuestHellos :
          HostHandlesHello(message) =>
              /\ IntroducedToOthers(message)
              /\ IntroducedToNewcomer(message)
              /\ NoSelfIntroduction]_vars
\* the parts of C32, one by one
OthersLearnNewcomer ==
    [][\A message \in GuestHellos :
          HostHandlesHello(message) => IntroducedToOthers(message)]_vars
NewcomerLearnsOthers ==
    [][\A message \in GuestHellos :
          HostHandlesHello(message) => IntroducedToNewcomer(message)]_vars
NobodyLearnsItself ==
    [][\A message \in GuestHellos :
          HostHandlesHello(message) => NoSelfIntroduction]_vars

\* C33: the ROOM_ANNOUNCE handler replaces a stored room only when the
\* announced room is preferred: it stores the announcement iff no room with
\* that code is stored, or the announced version is higher than the stored
\* version, or the versions are equal and the announced lastActive is newer;
\* otherwise the stored room is unchanged.
Preferred(room) ==
    \/ ~Has(rooms, room.code)
    \/ room.version > rooms[room.code].version
    \/ /\ room.version = rooms[room.code].version
       /\ room.lastActive > rooms[room.code].lastActive
StoresAnnouncement(room, from) ==
    /\ Has(rooms', room.code)
    /\ rooms' # rooms
    /\ rooms'[room.code].version = OrNum(room.version, 1) + 1
    /\ rooms'[room.code].lastActive = OrNum(room.lastActive, now)
    /\ rooms'[room.code].creator = from
HelloSteps == {"helloStart", "helloResume", "helloFinish"}
C34_LocalTrustSurvivesHello ==
    [][last'.op \in HelloSteps =>
          \A p \in DOMAIN knownPeers :
              knownPeers[p].verifiedMethod = "manual" =>
                  knownPeers'[p].trustLevel = knownPeers[p].trustLevel]_vars

\* C35: when handle(message) resolves, every handler registered for that
\* message has finished, asynchronous handlers registered through
\* registerAction included: a caller that awaits handle for message k before
\* handling message k+1 never has the HELLO or INTRODUCE handler of message k
\* still running while message k+1 is handled.
HandlerRuns(ts) == {t \in DOMAIN ts : ts[t].kind \in {"hello", "introduce"}}
C35_HandleAwaitsHandlers ==
    [][/\ (Has(tasks, HandleTask) /\ ~Has(tasks', HandleTask))
           => tasks[HandleTask].started \cap HandlerRuns(tasks') = {}
       /\ (~Has(tasks, HandleTask) /\ Has(tasks', HandleTask))
           => HandlerRuns(tasks) = {}]_vars

\* C36: for any set of ROOM_ANNOUNCE messages about the same room code, the
\* room finally stored does not depend on the order or interleaving in which
\* they are handled: it always carries the data of the announcement with the
\* highest version, ties broken by newest lastActive.
NotOlder(a, b) ==
    \/ a.version > b.version
    \/ a.version = b.version /\ a.lastActive >= b.lastActive
Best(announced) == CHOOSE a \in announced : \A b \in announced : NotOlder(a, b)
C36_FinalRoomIsBest ==
    (last.op = "roomPut" /\ DOMAIN tasks = {}) =>
        /\ Has(rooms, RoomCode)
        /\ rooms[RoomCode].version = Best(last.seen).version + 1
        /\ rooms[RoomCode].lastActive = Best(last.seen).lastActive

\* C39: for every identity produced by PeerIdentity.generate,
\* parseFingerprintToPeerId applied to the identity's fingerprint returns the
\* identity's id ('peer-' followed by the first 8 hex characters of the
\* public-key hash), so a contact can be addressed from its fingerprint alone.
Generated == {PeerIdentityGenerate(k, n, t) : k \in Keys, n \in Names, t \in 1..MaxTime}
C39_FingerprintGivesPeerId ==
    /\ \A identity \in Generated :
          /\ parseFingerprintToPeerId(identity.fingerprint) = identity.id
          /\ identity.id = <<"p", "e", "e", "r", "-">>
                \o SubSeq(JoinHex(sha256(KeyOf(identity.publicKey)), HashLen, <<>>), 1, 8)
    /\ (last.op = "parseFingerprintToPeerId" /\ ownIdentity # NullObj
           /\ last.fp = ownIdentity.fingerprint) => last.id = ownIdentity.id
C39_Witness ==
    /\ last.op = "parseFingerprintToPeerId"
    /\ ownIdentity # NullObj
    /\ last.fp = ownIdentity.fingerprint
    /\ last.id = ownIdentity.id

\* C37: after PeerJSSignaling.disconnect() or stopPresenceTracking(),
\* getOnlinePeers() is empty and isPeerOnline is false for every peer, and
\* this stays so until presence tracking is started again, even when pings
\* started by an earlier checkPeerPresence are still in flight and complete
\* later.
C37_StoppedMeansNobodyOnline ==
    signaling.stopped =>
        /\ getOnlinePeers(signaling) = {}
        /\ \A p \in PeerIds : ~isPeerOnline(signaling, p)
\* the part of C37 that holds: right after the call nobody is online
StopClearsPresence ==
    last.op \in {"disconnect", "stopPresenceTracking"} => getOnlinePeers(signaling) = {}

\* C38: PeerJSSignaling keeps at most one signaling connection per target
\* id: for any number of sendToPeer calls to the same target, in any
\* interleaving (a second call made while the first still waits for its
\* connection to open included), exactly one connection is created and
\* later calls reuse it.
C38_OneConnectionPerTarget ==
    \A target \in PeerIds : signaling.live[target] <= 1

====
